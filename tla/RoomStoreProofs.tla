--------------------------- MODULE RoomStoreProofs ---------------------------
(***************************************************************************)
(* Both backends implement ChatStore, for every number of concurrent       *)
(* requests, rooms, members and messages.  SQLite needs little: one thread *)
(* runs a whole operation.  In PostgreSQL the checks of an operation are   *)
(* made in separate statements, and what makes its commit do the whole     *)
(* operation at once is what its locks promise: as long as it holds them,  *)
(* every other commit leaves what it has read as it was, or moves it only  *)
(* where that does no harm (a mute may lapse, a message of the room may be *)
(* removed by retention, a parent may be detached from its own parent).    *)
(***************************************************************************)
EXTENDS RoomStore, TLAPS, FiniteSetTheorems

-----------------------------------------------------------------------------
(* What an operation writes, as a whole database each.                     *)
\* A database by its columns.
Database(rooms, flags, msg, last, control, cursor) ==
    [rooms |-> rooms, flags |-> flags, msg |-> msg, last |-> last,
     control |-> control, cursor |-> cursor]

\* create_message inserts the row of its message under the next id.
Inserted(d, q) ==
    [i \in DOMAIN d.msg \cup {d.last + 1} |-> IF i = d.last + 1 THEN NewRow(q) ELSE d.msg[i]]

\* update, delete, react and pin write one row.
Edited(d, q) == [i \in DOMAIN d.msg |-> IF i = q.msg THEN Rewritten(d.msg[i], q) ELSE d.msg[i]]

\* e is d after operation q, when it removes V and reads up to pos.
Writes(e, d, q, V, pos) ==
    /\ q.op = "createRoom" =>
         e = Database(d.rooms \cup {q.room}, d.flags, d.msg, d.last, d.control, d.cursor)
    /\ q.op = "setRoomState" =>
         e = Database(d.rooms, [d.flags EXCEPT ![q.room] = Patched(d.flags[q.room], q.flags)],
                      d.msg, d.last, d.control, d.cursor)
    /\ q.op = "deleteRoom" =>
         e = Database(d.rooms \ {q.room}, [d.flags EXCEPT ![q.room] = {}], Without(d.msg, V),
                      d.last, [d.control EXCEPT ![q.room] = [m \in Members |-> {}]],
                      [d.cursor EXCEPT ![q.room] = [m \in Members |-> 0]])
    /\ q.op = "create" =>
         e = Database(d.rooms, d.flags, Without(Inserted(d, q), V), d.last + 1,
                      d.control, d.cursor)
    /\ q.op = "retain" =>
         e = Database(d.rooms, d.flags, Without(d.msg, V), d.last, d.control, d.cursor)
    /\ q.op = "moderate" =>
         e = Database(d.rooms, d.flags, d.msg, d.last,
                      Put(d.control, q.room, q.by, Patched(d.control[q.room][q.by], q.flags)),
                      d.cursor)
    /\ q.op = "read" =>
         e = Database(d.rooms, d.flags, d.msg, d.last, d.control,
                      Put(d.cursor, q.room, q.by, pos))
    /\ q.op = "clear" =>
         e = Database(d.rooms, d.flags, d.msg, d.last, d.control,
                      Put(d.cursor, q.room, q.by, 0))
    /\ q.op \in {"update", "delete", "react", "pin"} =>
         e = Database(d.rooms, d.flags, Edited(d, q), d.last, d.control, d.cursor)

\* Effect is what Writes says, operation by operation.
LEMMA Effects ==
    ASSUME NEW d, NEW q \in Request, NEW V, NEW pos, IsDatabase(d)
    PROVE  Writes(Effect(d, q, V, pos), d, q, V, pos)
  <1>0. d = Database(d.rooms, d.flags, d.msg, d.last, d.control, d.cursor)
    BY Zenon DEF IsDatabase, Database
  <1> DEFINE e == Effect(d, q, V, pos)
  <1>1. ASSUME NEW x, NEW rooms
        PROVE  [Database(rooms, d.flags, d.msg, d.last, d.control, d.cursor) EXCEPT !.rooms = x]
                 = Database(x, d.flags, d.msg, d.last, d.control, d.cursor)
    BY DEF Database
  <1>2. q.op = "createRoom" => e = [d EXCEPT !.rooms = @ \cup {q.room}]
    BY Zenon DEF Effect
  <1>3. q.op = "setRoomState" =>
            e = [d EXCEPT !.flags = [@ EXCEPT ![q.room] = Patched(d.flags[q.room], q.flags)]]
    BY Zenon DEF Effect
  <1>4. q.op = "deleteRoom" =>
            e = [d EXCEPT !.rooms = @ \ {q.room}, !.msg = Without(@, V),
                      !.flags = [@ EXCEPT ![q.room] = {}],
                      !.control = [@ EXCEPT ![q.room] = [m \in Members |-> {}]],
                      !.cursor = [@ EXCEPT ![q.room] = [m \in Members |-> 0]]]
    BY Zenon DEF Effect
  <1>5. q.op = "create" =>
            e = [d EXCEPT !.last = @ + 1, !.msg = Without(Inserted(d, q), V)]
    BY Zenon DEF Effect, Inserted
  <1>6. q.op = "retain" => e = [d EXCEPT !.msg = Without(@, V)]
    BY Zenon DEF Effect
  <1>7. q.op = "moderate" =>
            e = [d EXCEPT !.control = Put(@, q.room, q.by, Patched(d.control[q.room][q.by], q.flags))]
    BY Zenon DEF Effect
  <1>8. q.op = "read" => e = [d EXCEPT !.cursor = Put(@, q.room, q.by, pos)]
    BY Zenon DEF Effect
  <1>9. q.op = "clear" => e = [d EXCEPT !.cursor = Put(@, q.room, q.by, 0)]
    BY Zenon DEF Effect
  <1>10. q.op \in {"update", "delete", "react", "pin"} => e = [d EXCEPT !.msg = Edited(d, q)]
    BY Zenon DEF Effect, Edited
  <1>11. q.op = "createRoom" =>
            e = Database(d.rooms \cup {q.room}, d.flags, d.msg, d.last, d.control, d.cursor)
    BY <1>0, <1>2 DEF Database
  <1>12. q.op = "setRoomState" =>
            e = Database(d.rooms, [d.flags EXCEPT ![q.room] = Patched(d.flags[q.room], q.flags)],
                                 d.msg, d.last, d.control, d.cursor)
    <2> DEFINE x == [d.flags EXCEPT ![q.room] = Patched(d.flags[q.room], q.flags)]
    <2> HIDE DEF x, e
    <2>1. q.op = "setRoomState" => e = [d EXCEPT !.flags = x]
      BY <1>3 DEF x
    <2>2. q.op = "setRoomState" => e = Database(d.rooms, x, d.msg, d.last, d.control, d.cursor)
      BY <2>1, <1>0 DEF Database
    <2> QED BY <2>2 DEF x
  <1>13. q.op = "deleteRoom" =>
            e = Database(d.rooms \ {q.room}, [d.flags EXCEPT ![q.room] = {}], Without(d.msg, V),
                                 d.last, [d.control EXCEPT ![q.room] = [m \in Members |-> {}]],
                                 [d.cursor EXCEPT ![q.room] = [m \in Members |-> 0]])
    <2> DEFINE f == [d.flags EXCEPT ![q.room] = {}]
               w == Without(d.msg, V)
               c == [d.control EXCEPT ![q.room] = [m \in Members |-> {}]]
               u == [d.cursor EXCEPT ![q.room] = [m \in Members |-> 0]]
    <2> HIDE DEF f, w, c, u, e
    <2>1. q.op = "deleteRoom" =>
            e = [d EXCEPT !.rooms = @ \ {q.room}, !.msg = w, !.flags = f, !.control = c, !.cursor = u]
      BY <1>4 DEF f, w, c, u
    <2>2. q.op = "deleteRoom" => e = Database(d.rooms \ {q.room}, f, w, d.last, c, u)
      BY <2>1, <1>0 DEF Database
    <2> QED BY <2>2 DEF f, w, c, u
  <1>14. q.op = "create" =>
                    e = Database(d.rooms, d.flags, Without(Inserted(d, q), V), d.last + 1,
                                 d.control, d.cursor)
    BY <1>0, <1>5 DEF Database
  <1>15. q.op = "retain" =>
                    e = Database(d.rooms, d.flags, Without(d.msg, V), d.last, d.control, d.cursor)
    BY <1>0, <1>6 DEF Database
  <1>16. q.op = "moderate" =>
                    e = Database(d.rooms, d.flags, d.msg, d.last,
                                 Put(d.control, q.room, q.by, Patched(d.control[q.room][q.by], q.flags)),
                                 d.cursor)
    BY <1>0, <1>7 DEF Database
  <1>17. q.op = "read" =>
                    e = Database(d.rooms, d.flags, d.msg, d.last, d.control,
                                 Put(d.cursor, q.room, q.by, pos))
    BY <1>0, <1>8 DEF Database
  <1>18. q.op = "clear" =>
                    e = Database(d.rooms, d.flags, d.msg, d.last, d.control,
                                 Put(d.cursor, q.room, q.by, 0))
    BY <1>0, <1>9 DEF Database
  <1>19. q.op \in {"update", "delete", "react", "pin"} =>
                    e = Database(d.rooms, d.flags, Edited(d, q), d.last, d.control, d.cursor)
    BY <1>0, <1>10 DEF Database
  <1> HIDE DEF e
  <1>20. QED
    BY ONLY <1>11, <1>12, <1>13, <1>14, <1>15, <1>16, <1>17, <1>18, <1>19, Zenon DEF e, Writes

\* IsDatabase, of the columns.
IsShaped(rooms, flags, msg, last, control, cursor) ==
    /\ rooms \subseteq Rooms /\ IsFiniteSet(rooms)
    /\ flags \in [Rooms -> SUBSET RoomFlags]
    /\ last \in 0..MaxIds
    /\ DOMAIN msg \subseteq 1..last
    /\ msg \in [DOMAIN msg -> Row]
    /\ control \in [Rooms -> [Members -> SUBSET Controls]]
    /\ cursor \in [Rooms -> [Members -> Positions]]

\* A database is made of its columns.
LEMMA Fields ==
    ASSUME NEW d, IsDatabase(d)
    PROVE  d = Database(d.rooms, d.flags, d.msg, d.last, d.control, d.cursor)
  BY Zenon DEF IsDatabase, Database

-----------------------------------------------------------------------------
(* What the writes of Effect do to the rows.                               *)

\* A DELETE keeps the rows it does not remove, except that it detaches the
\* replies of those it does.
LEMMA RowsWithout ==
    ASSUME NEW msg, NEW V, NEW i \in DOMAIN msg \ V, msg[i] \in Row
    PROVE  /\ Without(msg, V)[i] \in Row
           /\ Without(msg, V)[i].parent = IF msg[i].parent \in V THEN 0 ELSE msg[i].parent
           /\ \A f \in {"room", "by", "key", "text", "reacts", "pin", "deleted"} :
                  Without(msg, V)[i][f] = msg[i][f]
  <1> DEFINE r == msg[i]
             x == IF r.parent \in V THEN 0 ELSE r.parent
  <1>1. r \in Row /\ x \in 0..MaxIds
    BY ConstantsAssumption DEF Row
  <1>2. Without(msg, V)[i] = [r EXCEPT !.parent = x]
    BY DEF Without
  <1> HIDE DEF r, x
  <1>3. /\ [r EXCEPT !.parent = x] \in Row
        /\ [r EXCEPT !.parent = x].parent = x
        /\ \A f \in {"room", "by", "key", "text", "reacts", "pin", "deleted"} :
              [r EXCEPT !.parent = x][f] = r[f]
    BY <1>1 DEF Row
  <1> QED BY <1>2, <1>3 DEF r, x

LEMMA DomainWithout ==
    ASSUME NEW msg, NEW V
    PROVE  DOMAIN Without(msg, V) = DOMAIN msg \ V
  BY DEF Without

\* What a rewrite leaves alone: a room, an author, a key and a parent.
LEMMA RowsRewritten ==
    ASSUME NEW row \in Row, NEW q \in Request, q.op \in {"update", "delete", "react", "pin"}
    PROVE  /\ Rewritten(row, q) \in Row
           /\ \A f \in {"room", "by", "key", "parent"} : Rewritten(row, q)[f] = row[f]
  <1>0. q.text \in Texts /\ q.by \in Members /\ q.emoji \in Emojis
    BY DEF Request
  <1>1. CASE q.op = "update"
    <2>1. Rewritten(row, q) = [row EXCEPT !.text = q.text]
      BY <1>1, Zenon DEF Rewritten
    <2> QED BY <2>1, <1>0 DEF Row
  <1>2. CASE q.op = "delete"
    <2>1. Rewritten(row, q) = [row EXCEPT !.text = None, !.reacts = {}, !.pin = None, !.deleted = TRUE]
      BY <1>2, Zenon DEF Rewritten, Tombstone
    <2> QED BY <2>1 DEF Row
  <1>3. CASE q.op = "react"
    <2> DEFINE x == IF q.on THEN row.reacts \cup {<<q.by, q.emoji>>} ELSE row.reacts \ {<<q.by, q.emoji>>}
    <2>1. Rewritten(row, q) = [row EXCEPT !.reacts = x]
      BY <1>3, Zenon DEF Rewritten
    <2>2. x \in SUBSET (Members \X Emojis)
      BY <1>0 DEF Row
    <2> HIDE DEF x
    <2> QED BY <2>1, <2>2 DEF Row
  <1>4. CASE q.op = "pin"
    <2> DEFINE x == IF q.on THEN q.by ELSE None
    <2>1. Rewritten(row, q) = [row EXCEPT !.pin = x]
      BY <1>4, Zenon DEF Rewritten
    <2>2. x \in Members \cup {None}
      BY <1>0
    <2> HIDE DEF x
    <2> QED BY <2>1, <2>2 DEF Row
  <1> QED BY <1>1, <1>2, <1>3, <1>4

LEMMA NewRowTyped ==
    ASSUME NEW q \in Request
    PROVE  NewRow(q) \in Row
  BY DEF NewRow, Row, Request

LEMMA PutTyped ==
    ASSUME NEW D, NEW f \in [Rooms -> [Members -> D]], NEW r \in Rooms, NEW m \in Members, NEW v \in D
    PROVE  /\ Put(f, r, m, v) \in [Rooms -> [Members -> D]]
           /\ \A s \in Rooms, o \in Members :
                 Put(f, r, m, v)[s][o] = IF s = r /\ o = m THEN v ELSE f[s][o]
           /\ \A s \in Rooms \ {r} : Put(f, r, m, v)[s] = f[s]
  <1> DEFINE g == [f[r] EXCEPT ![m] = v]
  <1>1. g \in [Members -> D] /\ \A o \in Members : g[o] = IF o = m THEN v ELSE f[r][o]
    OBVIOUS
  <1>2. Put(f, r, m, v) = [f EXCEPT ![r] = g]
    BY DEF Put
  <1> HIDE DEF g
  <1> QED BY <1>1, <1>2

LEMMA PatchedTyped ==
    ASSUME NEW q \in Request, NEW D, NEW S \in SUBSET D, DOMAIN q.flags \subseteq D
    PROVE  Patched(S, q.flags) \in SUBSET D
  BY DEF Patched

-----------------------------------------------------------------------------
(* Every operation keeps the types of the database.                        *)

\* An operation leaves a database behind.
LEMMA EffectTyped ==
    ASSUME NEW d, NEW q \in Requests, NEW V, NEW pos \in Positions, IsDatabase(d),
           q.op = "create" => d.last < MaxIds
    PROVE  IsDatabase(Effect(d, q, V, pos))
  <1> DEFINE e == Effect(d, q, V, pos)
  <1>0. q \in Request /\ MaxIds \in Nat
    BY ConstantsAssumption
  <1>a. /\ q.room \in Rooms /\ q.by \in Members
        /\ q.op \in Operations
    BY <1>0 DEF Request
  <1>1. \A rooms, flags, msg, last, control, cursor :
            IsShaped(rooms, flags, msg, last, control, cursor)
                => IsDatabase(Database(rooms, flags, msg, last, control, cursor))
    BY DEF IsDatabase, Database, IsShaped
  <1>2. IsShaped(d.rooms, d.flags, d.msg, d.last, d.control, d.cursor)
    BY Zenon DEF IsDatabase, IsShaped
  <1>3. ASSUME NEW msg, DOMAIN msg \subseteq 1..(d.last + 1), msg \in [DOMAIN msg -> Row]
        PROVE  Without(msg, V) \in [DOMAIN Without(msg, V) -> Row] /\ DOMAIN Without(msg, V) \subseteq DOMAIN msg
    <2>1. DOMAIN Without(msg, V) = DOMAIN msg \ V
      BY DomainWithout
    <2>2. \A i \in DOMAIN msg \ V : Without(msg, V)[i] \in Row
      BY <1>3, RowsWithout
    <2>3. Without(msg, V) = [i \in DOMAIN msg \ V |-> Without(msg, V)[i]]
      BY DEF Without
    <2> HIDE DEF e
    <2> QED BY <2>1, <2>2, <2>3
  <1>4. 0 \in Positions
    BY <1>0 DEF Positions
  <1>e. Writes(e, d, q, V, pos)
    BY <1>0, Effects
  <1> HIDE DEF e
  <1>5. CASE q.op = "createRoom"
    <2>1. IsFiniteSet(d.rooms \cup {q.room})
      BY <1>2, FS_AddElement DEF IsShaped
    <2> DEFINE y == d.rooms \cup {q.room}
    <2>2. y \subseteq Rooms
      BY <1>2, <1>a DEF IsShaped
    <2>e. e = Database(y, d.flags, d.msg, d.last, d.control, d.cursor)
      BY <1>e, <1>5 DEF Writes
    <2> HIDE DEF y
    <2>3. IsFiniteSet(y)
      BY <2>1 DEF y
    <2>4. IsShaped(y, d.flags, d.msg, d.last, d.control, d.cursor)
      BY <2>2, <2>3, <1>2, Zenon DEF IsShaped
    <2> QED BY <2>4, <1>1, <2>e, Zenon DEF e
  <1>6. CASE q.op = "setRoomState"
    <2> DEFINE x == Patched(d.flags[q.room], q.flags)
               f == [d.flags EXCEPT ![q.room] = x]
    <2>1. d.flags[q.room] \in SUBSET RoomFlags
      BY <1>2, <1>a DEF IsShaped
    <2>2. DOMAIN q.flags \subseteq RoomFlags
      BY <1>6, ConstantsAssumption, Zenon
    <2>3. x \in SUBSET RoomFlags
      BY <2>1, <2>2, <1>0, PatchedTyped
    <2>e. e = Database(d.rooms, f, d.msg, d.last, d.control, d.cursor)
      BY <1>e, <1>6 DEF Writes
    <2> HIDE DEF x
    <2>4. f \in [Rooms -> SUBSET RoomFlags]
      BY <2>3, <1>2, <1>a DEF IsShaped
    <2> HIDE DEF f
    <2>5. IsShaped(d.rooms, f, d.msg, d.last, d.control, d.cursor)
      BY <2>4, <1>2, Zenon DEF IsShaped
    <2> QED BY <2>5, <1>1, <2>e, Zenon DEF e
  <1>7. CASE q.op = "deleteRoom"
    <2>1. IsFiniteSet(d.rooms \ {q.room})
      BY <1>2, FS_RemoveElement DEF IsShaped
    <2> DEFINE w == Without(d.msg, V)
               f == [d.flags EXCEPT ![q.room] = {}]
               c == [d.control EXCEPT ![q.room] = [m \in Members |-> {}]]
               u == [d.cursor EXCEPT ![q.room] = [m \in Members |-> 0]]
    <2>2. w \in [DOMAIN w -> Row] /\ DOMAIN w \subseteq DOMAIN d.msg
      BY <1>2, <1>3 DEF IsShaped
    <2>3. f \in [Rooms -> SUBSET RoomFlags]
      BY <1>2, <1>a DEF IsShaped
    <2>4. c \in [Rooms -> [Members -> SUBSET Controls]]
      <3>1. [m \in Members |-> {}] \in [Members -> SUBSET Controls]
        OBVIOUS
      <3> QED BY <1>2, <3>1 DEF IsShaped
    <2>5. u \in [Rooms -> [Members -> Positions]]
      <3>1. [m \in Members |-> 0] \in [Members -> Positions]
        BY <1>4
      <3> QED BY <1>2, <3>1 DEF IsShaped
    <2>e. e = Database(d.rooms \ {q.room}, f, w, d.last, c, u)
      BY <1>e, <1>7 DEF Writes
    <2> HIDE DEF w, f, c, u
    <2>6. IsShaped(d.rooms \ {q.room}, f, w, d.last, c, u)
      BY <2>1, <2>2, <2>3, <2>4, <2>5, <1>2 DEF IsShaped
    <2> QED BY <2>6, <2>e, <1>1, Zenon DEF e
  <1>8. CASE q.op = "create"
    <2> DEFINE ins == Inserted(d, q)
               w == Without(ins, V)
    <2>1. DOMAIN ins = DOMAIN d.msg \cup {d.last + 1} /\ ins \in [DOMAIN ins -> Row]
      <3>1. NewRow(q) \in Row
        BY <1>0, NewRowTyped
      <3>2. DOMAIN ins = DOMAIN d.msg \cup {d.last + 1}
        BY DEF Inserted
      <3>3. \A i \in DOMAIN ins : ins[i] \in Row
        BY <3>1, <3>2, <1>2 DEF Inserted, IsShaped
      <3>4. ins = [i \in DOMAIN ins |-> ins[i]]
        BY DEF Inserted
      <3> HIDE DEF ins
      <3> QED BY <3>2, <3>3, <3>4
    <2> HIDE DEF ins
    <2>2. DOMAIN ins \subseteq 1..(d.last + 1)
      BY <2>1, <1>2, <1>0 DEF IsShaped
    <2>3. w \in [DOMAIN w -> Row] /\ DOMAIN w \subseteq DOMAIN ins
      BY <2>1, <2>2, <1>3
    <2>e. e = Database(d.rooms, d.flags, w, d.last + 1, d.control, d.cursor)
      BY <1>e, <1>8 DEF ins, Writes
    <2> HIDE DEF w
    <2>4. IsShaped(d.rooms, d.flags, w, d.last + 1, d.control, d.cursor)
      BY <2>2, <2>3, <1>2, <1>0, <1>8 DEF IsShaped
    <2> QED BY <2>4, <2>e, <1>1, Zenon DEF e
  <1>9. CASE q.op = "retain"
    <2> DEFINE w == Without(d.msg, V)
    <2>2. w \in [DOMAIN w -> Row] /\ DOMAIN w \subseteq DOMAIN d.msg
      BY <1>2, <1>3 DEF IsShaped
    <2>e. e = Database(d.rooms, d.flags, w, d.last, d.control, d.cursor)
      BY <1>e, <1>9 DEF Writes
    <2> HIDE DEF w
    <2>6. IsShaped(d.rooms, d.flags, w, d.last, d.control, d.cursor)
      BY <2>2, <1>2 DEF IsShaped
    <2> QED BY <2>6, <2>e, <1>1, Zenon DEF e
  <1>10. CASE q.op = "moderate"
    <2> DEFINE v == Patched(d.control[q.room][q.by], q.flags)
               c == Put(d.control, q.room, q.by, v)
    <2>0. d.control[q.room][q.by] \in SUBSET Controls
      BY <1>2, <1>a DEF IsShaped
    <2>f. DOMAIN q.flags \subseteq Controls
      BY <1>10, ConstantsAssumption, Zenon
    <2>1. v \in SUBSET Controls
      BY <2>0, <2>f, <1>0, PatchedTyped
    <2>e. e = Database(d.rooms, d.flags, d.msg, d.last, c, d.cursor)
      BY <1>e, <1>10 DEF Writes
    <2> HIDE DEF v
    <2>2. c \in [Rooms -> [Members -> SUBSET Controls]]
      BY <2>1, <1>2, <1>a, PutTyped DEF IsShaped
    <2> HIDE DEF c
    <2>3. IsShaped(d.rooms, d.flags, d.msg, d.last, c, d.cursor)
      BY <2>2, <1>2 DEF IsShaped
    <2> QED BY <2>3, <2>e, <1>1, Zenon DEF e
  <1>11. ASSUME NEW v \in Positions, e = Database(d.rooms, d.flags, d.msg, d.last, d.control,
                          Put(d.cursor, q.room, q.by, v))
         PROVE IsDatabase(e)
    <2> DEFINE c == Put(d.cursor, q.room, q.by, v)
    <2>1. c \in [Rooms -> [Members -> Positions]]
      BY <1>2, <1>a, PutTyped DEF IsShaped
    <2>e. e = Database(d.rooms, d.flags, d.msg, d.last, d.control, c)
      BY <1>11
    <2> HIDE DEF c
    <2>2. IsShaped(d.rooms, d.flags, d.msg, d.last, d.control, c)
      BY <2>1, <1>2 DEF IsShaped
    <2> QED BY <2>2, <2>e, <1>1, Zenon DEF e
  <1>12. CASE q.op \in {"update", "delete", "react", "pin"}
    <2> DEFINE x == Edited(d, q)
    <2>1. DOMAIN x = DOMAIN d.msg
      BY DEF Edited
    <2>2. \A i \in DOMAIN d.msg : x[i] \in Row
      <3> TAKE i \in DOMAIN d.msg
      <3>1. d.msg[i] \in Row
        BY <1>2 DEF IsShaped
      <3>2. Rewritten(d.msg[i], q) \in Row
        BY <3>1, <1>0, <1>12, RowsRewritten
      <3> QED BY <3>1, <3>2 DEF Edited
    <2>3. x = [i \in DOMAIN x |-> x[i]]
      BY DEF Edited
    <2>e. e = Database(d.rooms, d.flags, x, d.last, d.control, d.cursor)
      BY <1>e, <1>12 DEF Writes
    <2> HIDE DEF x
    <2>4. x \in [DOMAIN x -> Row]
      BY <2>1, <2>2, <2>3
    <2>5. IsShaped(d.rooms, d.flags, x, d.last, d.control, d.cursor)
      BY <2>1, <2>4, <1>2 DEF IsShaped
    <2> QED BY <2>5, <2>e, <1>1, Zenon DEF e
  <1> QED BY <1>5, <1>6, <1>7, <1>8, <1>9, <1>10, <1>11, <1>12, <1>4, <1>a, <1>e DEF Operations, e, Writes

-----------------------------------------------------------------------------
(* What the locks of an operation keep from everybody else.                *)

\* e may follow d by a commit of a transaction that holds the locks L and no
\* others: what a lock outside L protects is as it was, up to moderation that
\* lapses and parents that go away.
Moves(d, e, L) ==
    /\ e.last >= d.last
    /\ Lock("roomcap", None) \notin L => e.rooms \subseteq d.rooms
    /\ \A r \in Rooms : Lock("room", r) \notin L =>
          /\ r \in e.rooms <=> r \in d.rooms
          /\ e.flags[r] = d.flags[r]
          /\ e.cursor[r] = d.cursor[r]
          /\ \A m \in Members : e.control[r][m] \subseteq d.control[r][m]
    /\ Lock("cap", None) \notin L => e.last = d.last /\ DOMAIN e.msg = DOMAIN d.msg
    /\ \A i \in DOMAIN e.msg \ DOMAIN d.msg :
          i > d.last /\ Lock("room", e.msg[i].room) \in L
    /\ \A i \in DOMAIN d.msg : Lock("msg", i) \notin L => i \in DOMAIN e.msg
    /\ \A i \in DOMAIN d.msg \cap DOMAIN e.msg :
          /\ \A f \in {"room", "by", "key"} : e.msg[i][f] = d.msg[i][f]
          /\ e.msg[i].parent \in {d.msg[i].parent, 0}
          /\ Lock("msg", i) \notin L =>
                \A f \in {"text", "reacts", "pin", "deleted"} : e.msg[i][f] = d.msg[i][f]

\* L holds the locks the writes of q need when it removes V.
Covers(L, d, q, V) ==
    /\ q.op = "createRoom" => Lock("roomcap", None) \in L
    /\ q.op \in {"createRoom", "setRoomState", "deleteRoom", "create", "moderate", "read", "clear"} =>
          Lock("room", q.room) \in L
    /\ q.op \in {"create", "retain", "deleteRoom"} =>
          /\ Lock("cap", None) \in L
          /\ \A i \in V \cap DOMAIN d.msg : Lock("msg", i) \in L
    /\ q.op \in {"update", "delete", "react", "pin"} => Lock("msg", q.msg) \in L

\* A database with the same messages.
LEMMA MovesSameRows ==
    ASSUME NEW d, NEW L, IsDatabase(d), NEW rooms, NEW flags, NEW control, NEW cursor,
           Lock("roomcap", None) \notin L => rooms \subseteq d.rooms,
           \A r \in Rooms : Lock("room", r) \notin L =>
              /\ r \in rooms <=> r \in d.rooms
              /\ flags[r] = d.flags[r]
              /\ cursor[r] = d.cursor[r]
              /\ \A m \in Members : control[r][m] \subseteq d.control[r][m]
    PROVE  Moves(d, Database(rooms, flags, d.msg, d.last, control, cursor), L)
  BY DEF Moves, Database, IsDatabase

\* A database with other messages too.
LEMMA MovesRows ==
    ASSUME NEW d, NEW L, IsDatabase(d), NEW msg, NEW last \in Nat, last >= d.last,
           Lock("cap", None) \notin L => last = d.last /\ DOMAIN msg = DOMAIN d.msg,
           \A i \in DOMAIN msg \ DOMAIN d.msg : i > d.last /\ Lock("room", msg[i].room) \in L,
           \A i \in DOMAIN d.msg : Lock("msg", i) \notin L => i \in DOMAIN msg,
           \A i \in DOMAIN d.msg \cap DOMAIN msg :
              /\ \A f \in {"room", "by", "key"} : msg[i][f] = d.msg[i][f]
              /\ msg[i].parent \in {d.msg[i].parent, 0}
              /\ Lock("msg", i) \notin L =>
                    \A f \in {"text", "reacts", "pin", "deleted"} : msg[i][f] = d.msg[i][f],
           NEW rooms, NEW flags, NEW control, NEW cursor,
           Lock("roomcap", None) \notin L => rooms \subseteq d.rooms,
           \A r \in Rooms : Lock("room", r) \notin L =>
              /\ r \in rooms <=> r \in d.rooms
              /\ flags[r] = d.flags[r]
              /\ cursor[r] = d.cursor[r]
              /\ \A m \in Members : control[r][m] \subseteq d.control[r][m]
    PROVE  Moves(d, Database(rooms, flags, msg, last, control, cursor), L)
  BY DEF Moves, Database

\* A database with other messages only.
LEMMA MovesRowsOnly ==
    ASSUME NEW d, NEW L, IsDatabase(d), NEW msg, NEW last \in Nat, last >= d.last,
           Lock("cap", None) \notin L => last = d.last /\ DOMAIN msg = DOMAIN d.msg,
           \A i \in DOMAIN msg \ DOMAIN d.msg : i > d.last /\ Lock("room", msg[i].room) \in L,
           \A i \in DOMAIN d.msg : Lock("msg", i) \notin L => i \in DOMAIN msg,
           \A i \in DOMAIN d.msg \cap DOMAIN msg :
              /\ \A f \in {"room", "by", "key"} : msg[i][f] = d.msg[i][f]
              /\ msg[i].parent \in {d.msg[i].parent, 0}
              /\ Lock("msg", i) \notin L =>
                    \A f \in {"text", "reacts", "pin", "deleted"} : msg[i][f] = d.msg[i][f]
    PROVE  Moves(d, Database(d.rooms, d.flags, msg, last, d.control, d.cursor), L)
  BY DEF Moves, Database

LEMMA PutElsewhere ==
    ASSUME NEW f, NEW r, NEW m, NEW v, NEW s \in DOMAIN f, s # r
    PROVE  Put(f, r, m, v)[s] = f[s]
  BY DEF Put

\* An operation that holds the locks of what it writes moves nothing else.
LEMMA EffectMoves ==
    ASSUME NEW d, NEW q \in Requests, NEW V, NEW pos \in Positions, IsDatabase(d),
           NEW L, Covers(L, d, q, V)
    PROVE  Moves(d, Effect(d, q, V, pos), L)
  <1> DEFINE e == Effect(d, q, V, pos)
  <1>0. q \in Request
    BY ConstantsAssumption
  <1>a. /\ q.room \in Rooms /\ q.by \in Members
        /\ q.op \in Operations
    BY <1>0 DEF Request
  <1>e. Writes(e, d, q, V, pos)
    BY <1>0, Effects
  <1> HIDE DEF e
  <1>d. /\ d.rooms \subseteq Rooms
        /\ d.flags \in [Rooms -> SUBSET RoomFlags]
        /\ d.last \in Nat
        /\ DOMAIN d.msg \subseteq 1..d.last
        /\ \A i \in DOMAIN d.msg : d.msg[i] \in Row
        /\ d.control \in [Rooms -> [Members -> SUBSET Controls]]
        /\ d.cursor \in [Rooms -> [Members -> Positions]]
    BY DEF IsDatabase
  <1>w. \A i \in DOMAIN d.msg \ V :
            /\ \A f \in {"room", "by", "key", "text", "reacts", "pin", "deleted"} :
                    Without(d.msg, V)[i][f] = d.msg[i][f]
            /\ Without(d.msg, V)[i].parent \in {d.msg[i].parent, 0}
    <2> TAKE i \in DOMAIN d.msg \ V
    <2> QED BY RowsWithout, <1>d
  <1>1. CASE q.op = "createRoom"
    <2>1. e = Database(d.rooms \cup {q.room}, d.flags, d.msg, d.last, d.control, d.cursor)
      BY <1>e, <1>1 DEF Writes
    <2>2. Lock("roomcap", None) \in L /\ Lock("room", q.room) \in L
      BY <1>1 DEF Covers
    <2> DEFINE y == d.rooms \cup {q.room}
    <2>3. \A r \in Rooms : Lock("room", r) \notin L => (r \in y <=> r \in d.rooms)
      BY <2>2
    <2> HIDE DEF y
    <2>4. Moves(d, Database(y, d.flags, d.msg, d.last, d.control, d.cursor), L)
      BY <2>2, <2>3, MovesSameRows
    <2> QED BY <2>1, <2>4 DEF y, e
  <1>2. CASE q.op = "setRoomState"
    <2> DEFINE x == Patched(d.flags[q.room], q.flags)
               f == [d.flags EXCEPT ![q.room] = x]
    <2>1. e = Database(d.rooms, f, d.msg, d.last, d.control, d.cursor)
      BY <1>e, <1>2 DEF Writes
    <2> HIDE DEF x
    <2>2. Lock("room", q.room) \in L
      BY <1>2 DEF Covers
    <2>3. \A r \in Rooms : Lock("room", r) \notin L => f[r] = d.flags[r]
      BY <2>2, <1>d
    <2> HIDE DEF f
    <2>4. Moves(d, Database(d.rooms, f, d.msg, d.last, d.control, d.cursor), L)
      BY <2>3, MovesSameRows
    <2> QED BY <2>1, <2>4 DEF e
  <1>3. CASE q.op = "deleteRoom"
    <2> DEFINE y == d.rooms \ {q.room}
               w == Without(d.msg, V)
               f == [d.flags EXCEPT ![q.room] = {}]
               c == [d.control EXCEPT ![q.room] = [m \in Members |-> {}]]
               u == [d.cursor EXCEPT ![q.room] = [m \in Members |-> 0]]
    <2>1. e = Database(y, f, w, d.last, c, u)
      BY <1>e, <1>3 DEF Writes
    <2>2. /\ Lock("room", q.room) \in L /\ Lock("cap", None) \in L
          /\ \A i \in V \cap DOMAIN d.msg : Lock("msg", i) \in L
      BY <1>3 DEF Covers
    <2>3. \A r \in Rooms : Lock("room", r) \notin L =>
              /\ r \in y <=> r \in d.rooms
              /\ f[r] = d.flags[r]
              /\ u[r] = d.cursor[r]
              /\ \A m \in Members : c[r][m] \subseteq d.control[r][m]
      BY <2>2, <1>d, <1>a
    <2>4. y \subseteq d.rooms
      OBVIOUS
    <2>5. DOMAIN w = DOMAIN d.msg \ V
      BY DomainWithout
    <2> HIDE DEF y, w, f, c, u
    <2>6. \A i \in DOMAIN d.msg \cap DOMAIN w :
            /\ \A g \in {"room", "by", "key", "text", "reacts", "pin", "deleted"} : w[i][g] = d.msg[i][g]
            /\ w[i].parent \in {d.msg[i].parent, 0}
      BY <1>w, <2>5 DEF w
    <2>7. Moves(d, Database(y, f, w, d.last, c, u), L)
      BY <2>2, <2>3, <2>4, <2>5, <2>6, <1>d, MovesRows
    <2> QED BY <2>1, <2>7 DEF e
  <1>4. CASE q.op = "create"
    <2> DEFINE ins == Inserted(d, q)
               w == Without(ins, V)
    <2>1. e = Database(d.rooms, d.flags, w, d.last + 1, d.control, d.cursor)
      BY <1>e, <1>4 DEF Writes
    <2>2. /\ Lock("room", q.room) \in L /\ Lock("cap", None) \in L
          /\ \A i \in V \cap DOMAIN d.msg : Lock("msg", i) \in L
      BY <1>4 DEF Covers
    <2>3. DOMAIN ins = DOMAIN d.msg \cup {d.last + 1}
      BY DEF Inserted
    <2>4. NewRow(q) \in Row /\ NewRow(q).room = q.room
      BY <1>0, NewRowTyped DEF NewRow
    <2>5. \A i \in DOMAIN d.msg : ins[i] = d.msg[i] /\ i # d.last + 1
      BY <1>d DEF Inserted
    <2>6. ins[d.last + 1] = NewRow(q)
      BY DEF Inserted
    <2> HIDE DEF ins
    <2>7. DOMAIN w = DOMAIN ins \ V
      BY DomainWithout
    <2>8. \A i \in DOMAIN ins \ V :
            /\ \A g \in {"room", "by", "key", "text", "reacts", "pin", "deleted"} : w[i][g] = ins[i][g]
            /\ w[i].parent \in {ins[i].parent, 0}
      <3> TAKE i \in DOMAIN ins \ V
      <3>1. ins[i] \in Row
        BY <2>3, <2>4, <2>5, <2>6, <1>d
      <3> QED BY <3>1, RowsWithout
    <2> HIDE DEF w
    <2>9. \A i \in DOMAIN w \ DOMAIN d.msg : i > d.last /\ Lock("room", w[i].room) \in L
      BY <2>2, <2>3, <2>4, <2>6, <2>7, <2>8, <1>d
    <2>10. \A i \in DOMAIN d.msg \cap DOMAIN w :
            /\ \A g \in {"room", "by", "key", "text", "reacts", "pin", "deleted"} : w[i][g] = d.msg[i][g]
            /\ w[i].parent \in {d.msg[i].parent, 0}
      BY <2>5, <2>7, <2>8
    <2>11. \A i \in DOMAIN d.msg : Lock("msg", i) \notin L => i \in DOMAIN w
      BY <2>2, <2>3, <2>7
    <2>12. Moves(d, Database(d.rooms, d.flags, w, d.last + 1, d.control, d.cursor), L)
      BY <2>2, <2>9, <2>10, <2>11, <1>d, MovesRowsOnly
    <2> QED BY <2>1, <2>12 DEF e
  <1>5. CASE q.op = "retain"
    <2> DEFINE w == Without(d.msg, V)
    <2>1. e = Database(d.rooms, d.flags, w, d.last, d.control, d.cursor)
      BY <1>e, <1>5 DEF Writes
    <2>2. /\ Lock("cap", None) \in L
          /\ \A i \in V \cap DOMAIN d.msg : Lock("msg", i) \in L
      BY <1>5 DEF Covers
    <2>5. DOMAIN w = DOMAIN d.msg \ V
      BY DomainWithout
    <2> HIDE DEF w
    <2>6. \A i \in DOMAIN d.msg \cap DOMAIN w :
            /\ \A g \in {"room", "by", "key", "text", "reacts", "pin", "deleted"} : w[i][g] = d.msg[i][g]
            /\ w[i].parent \in {d.msg[i].parent, 0}
      BY <1>w, <2>5 DEF w
    <2>7. Moves(d, Database(d.rooms, d.flags, w, d.last, d.control, d.cursor), L)
      BY <2>2, <2>5, <2>6, <1>d, MovesRowsOnly
    <2> QED BY <2>1, <2>7 DEF e
  <1>6. CASE q.op = "moderate"
    <2> DEFINE v == Patched(d.control[q.room][q.by], q.flags)
               c == Put(d.control, q.room, q.by, v)
    <2>1. e = Database(d.rooms, d.flags, d.msg, d.last, c, d.cursor)
      BY <1>e, <1>6 DEF Writes
    <2>2. Lock("room", q.room) \in L
      BY <1>6 DEF Covers
    <2>3. d.control[q.room][q.by] \in SUBSET Controls /\ DOMAIN q.flags \subseteq Controls
      BY <1>6, <1>d, <1>a, ConstantsAssumption
    <2>4. v \in SUBSET Controls
      BY <2>3, <1>0, PatchedTyped
    <2> HIDE DEF v
    <2>5. \A s \in Rooms \ {q.room} : c[s] = d.control[s]
      BY <1>d, PutElsewhere
    <2> HIDE DEF c
    <2>6. Moves(d, Database(d.rooms, d.flags, d.msg, d.last, c, d.cursor), L)
      BY <2>2, <2>5, MovesSameRows
    <2> QED BY <2>1, <2>6 DEF e
  <1>7. CASE q.op \in {"read", "clear"}
    <2> DEFINE v == IF q.op = "read" THEN pos ELSE 0
               c == Put(d.cursor, q.room, q.by, v)
    <2>1. e = Database(d.rooms, d.flags, d.msg, d.last, d.control, c)
      BY <1>e, <1>7 DEF Writes
    <2>2. Lock("room", q.room) \in L
      BY <1>7 DEF Covers
    <2>4. v \in Positions
      BY ConstantsAssumption DEF Positions
    <2> HIDE DEF v
    <2>5. \A s \in Rooms \ {q.room} : c[s] = d.cursor[s]
      BY <1>d, PutElsewhere
    <2> HIDE DEF c
    <2>6. Moves(d, Database(d.rooms, d.flags, d.msg, d.last, d.control, c), L)
      BY <2>2, <2>5, MovesSameRows
    <2> QED BY <2>1, <2>6 DEF e
  <1>8. CASE q.op \in {"update", "delete", "react", "pin"}
    <2> DEFINE w == Edited(d, q)
    <2>1. e = Database(d.rooms, d.flags, w, d.last, d.control, d.cursor)
      BY <1>e, <1>8 DEF Writes
    <2>2. Lock("msg", q.msg) \in L
      BY <1>8 DEF Covers
    <2>3. DOMAIN w = DOMAIN d.msg
      BY DEF Edited
    <2>4. \A i \in DOMAIN d.msg :
            /\ \A f \in {"room", "by", "key", "parent"} : w[i][f] = d.msg[i][f]
            /\ i # q.msg => w[i] = d.msg[i]
      <3> TAKE i \in DOMAIN d.msg
      <3>1. w[i] = IF i = q.msg THEN Rewritten(d.msg[i], q) ELSE d.msg[i]
        BY DEF Edited
      <3> HIDE DEF w
      <3>2. \A f \in {"room", "by", "key", "parent"} : Rewritten(d.msg[i], q)[f] = d.msg[i][f]
        BY <1>0, <1>8, <1>d, RowsRewritten
      <3> QED BY <3>1, <3>2
    <2> HIDE DEF w
    <2>5. \A i \in DOMAIN d.msg \cap DOMAIN w :
            /\ \A f \in {"room", "by", "key"} : w[i][f] = d.msg[i][f]
            /\ w[i].parent \in {d.msg[i].parent, 0}
            /\ Lock("msg", i) \notin L =>
                  \A f \in {"text", "reacts", "pin", "deleted"} : w[i][f] = d.msg[i][f]
      <3> TAKE i \in DOMAIN d.msg \cap DOMAIN w
      <3>1. w[i].parent = d.msg[i].parent
        BY <2>4
      <3>2. Lock("msg", i) \notin L => w[i] = d.msg[i]
        BY <2>2, <2>4
      <3> QED BY <2>4, <3>1, <3>2
    <2>6. Moves(d, Database(d.rooms, d.flags, w, d.last, d.control, d.cursor), L)
      <3>1. \A i \in DOMAIN w \ DOMAIN d.msg : i > d.last /\ Lock("room", w[i].room) \in L
        BY <2>3
      <3>2. \A i \in DOMAIN d.msg : Lock("msg", i) \notin L => i \in DOMAIN w
        BY <2>3
      <3>3. d.last >= d.last
        BY <1>d
      <3> QED BY <3>1, <3>2, <3>3, <2>3, <2>5, <1>d, MovesRowsOnly
    <2> QED BY <2>1, <2>6 DEF e
  <1> QED BY <1>1, <1>2, <1>3, <1>4, <1>5, <1>6, <1>7, <1>8, <1>a DEF Operations, e

-----------------------------------------------------------------------------
(* The inductive invariant.                                                *)

\* The names of the statements.
StageNames == {"room", "cap", "roomcap", "parent", "msg", "rows", "scrub", "audit", "webhook"}

\* How many statements of t are done, and which.
Position(t) == Len(Stages(t.q)) - Len(t.todo)
Passed(t, s) == \E j \in 1..Position(t) : Stages(t.q)[j] = s

\* The statements left are the last ones of the operation.
OnTrack(t) ==
    /\ t.todo \in Seq(StageNames)
    /\ Len(t.todo) <= Len(Stages(t.q))
    /\ \A i \in 1..Len(t.todo) : t.todo[i] = Stages(t.q)[Position(t) + i]

\* Where a read may have found the newest message, or the one it names.
Readable(d, q) ==
    LET seen == {i \in 1..d.last : i \in DOMAIN d.msg => d.msg[i].room = q.room}
    IN  IF q.msg # 0 THEN {2 * i : i \in seen \cap {q.msg}}
        ELSE {2 * i : i \in seen} \cup {2 * i + 1 : i \in 0..d.last}

\* What a transaction relies on once it has locked and checked its room.
RoomPromise(d, t) ==
    /\ Lock("room", t.q.room) \in t.held
    /\ RoomAllows(d, t.q)
    /\ t.q.op = "createRoom" => Lock("roomcap", None) \in t.held
    /\ t.q.op = "create" => ~Replayed(d, t.q)
    /\ t.q.op \in {"setRoomState", "clear"} => Changes(d, t.q)
    /\ t.q.op = "read" =>
          /\ \/ d.cursor[t.q.room][t.q.by] # 0
             \/ Cardinality(HasCursor(d, t.q.room)) < MaxCursors
          /\ t.pos \in Readable(d, t.q)
          /\ t.pos > d.cursor[t.q.room][t.q.by]

\* ... once it has the message capacity lock and chosen what to remove,
CapPromise(d, t) == Lock("cap", None) \in t.held /\ t.victims = Victims(d, t.q)

\* ... once it has locked and checked its message or parent,
RowPromise(d, t) ==
    /\ RowAllows(d, t.q)
    /\ t.q.op # "create" => Changes(d, t.q)
    /\ t.q.msg # 0 => Lock("msg", t.q.msg) \in t.held

\* ... and once it has locked the rows it removes.
RowsPromise(d, t) == \A i \in t.victims \cap DOMAIN d.msg : Lock("msg", i) \in t.held

\* What a transaction relies on at the statement it is at: what a transaction
\* that committed now would still find.
Promise(d, t) ==
    /\ Passed(t, "roomcap") => Lock("roomcap", None) \in t.held
    /\ Passed(t, "room") => RoomPromise(d, t)
    /\ Passed(t, "cap") => CapPromise(d, t)
    /\ Passed(t, "parent") \/ Passed(t, "msg") => RowPromise(d, t)
    /\ Passed(t, "rows") => RowsPromise(d, t)

\* The record of a transaction.
IsTransaction(t) ==
    /\ t = [q |-> t.q, n |-> t.n, held |-> t.held, victims |-> t.victims, pos |-> t.pos,
            scrubbed |-> t.scrubbed, id |-> t.id, image |-> t.image, todo |-> t.todo]
    /\ t.q \in Requests
    /\ t.pos \in Positions

\* The steps of a SQLite request.
LocalSteps == {<<"local">>, <<"resume">>, <<"tell">>}

\* Creations that have not used their id yet.
Pending == {p \in Active : tx[p].q.op = "create" /\ tx[p].todo \notin {<<"resume">>, <<"tell">>}}

\* Every transaction is on its way and its promises are kept; no lock has two
\* holders.
Transactions ==
    /\ tx = [p \in Procs |-> tx[p]]
    /\ \A p \in Active : IsTransaction(tx[p])
    /\ backend # "postgres" => \A p \in Active : tx[p].todo \in LocalSteps
    /\ backend = "postgres" => \A p \in Active : OnTrack(tx[p]) /\ Promise(committed, tx[p])
    /\ \A p, o \in Active : p # o => tx[p].held \cap tx[o].held = {}

\* The inductive invariant: the database is well formed, there are ids for the
\* creations under way, and the locks keep their promises.
StoreInv ==
    /\ IsDatabase(committed)
    /\ committed.last + Cardinality(Pending) <= MaxIds
    /\ Transactions

-----------------------------------------------------------------------------
(* The transactions as records.                                            *)

LEMMA GrantedFields ==
    ASSUME NEW t, IsTransaction(t), NEW L
    PROVE  Granted(t, L) = [q |-> t.q, n |-> t.n, held |-> t.held \cup L, victims |-> t.victims,
                            pos |-> t.pos, scrubbed |-> t.scrubbed, id |-> t.id,
                            image |-> t.image, todo |-> t.todo]
  <1> DEFINE H == t.held \cup L
  <1>1. Granted(t, L) = [t EXCEPT !.held = H]
    BY DEF Granted
  <1>2. t = [q |-> t.q, n |-> t.n, held |-> t.held, victims |-> t.victims, pos |-> t.pos,
            scrubbed |-> t.scrubbed, id |-> t.id, image |-> t.image, todo |-> t.todo]
    BY DEF IsTransaction
  <1> HIDE DEF H
  <1>3. [t EXCEPT !.held = H] =
                           [q |-> t.q, n |-> t.n, held |-> H, victims |-> t.victims,
                            pos |-> t.pos, scrubbed |-> t.scrubbed, id |-> t.id,
                            image |-> t.image, todo |-> t.todo]
    BY ONLY <1>2
  <1> QED BY <1>1, <1>3 DEF H

\* A transaction after a statement, and a SQLite request after its commit.
Stepped(t, V, todo, pos, image, scrubbed) ==
    [t EXCEPT !.victims = V, !.todo = todo, !.pos = pos,
              !.image = image, !.scrubbed = scrubbed]

LEMMA AdvancedFields ==
    ASSUME NEW t, IsTransaction(t), NEW V, NEW todo, NEW pos, NEW image, NEW scrubbed
    PROVE  Stepped(t, V, todo, pos, image, scrubbed)
            = [q |-> t.q, n |-> t.n, held |-> t.held, victims |-> V, pos |-> pos,
               scrubbed |-> scrubbed, id |-> t.id, image |-> image, todo |-> todo]
  <1> DEFINE r1 == [t EXCEPT !.victims = V]
             r2 == [r1 EXCEPT !.todo = todo]
             r3 == [r2 EXCEPT !.pos = pos]
             r4 == [r3 EXCEPT !.image = image]
             r5 == [r4 EXCEPT !.scrubbed = scrubbed]
  <1>0. t = [q |-> t.q, n |-> t.n, held |-> t.held, victims |-> t.victims, pos |-> t.pos,
                scrubbed |-> t.scrubbed, id |-> t.id, image |-> t.image, todo |-> t.todo]
    BY DEF IsTransaction
  <1>e. Stepped(t, V, todo, pos, image, scrubbed) = r5
    BY DEF Stepped
  <1> HIDE DEF r1, r2, r3, r4, r5
  <1>1. r1 = [q |-> t.q, n |-> t.n, held |-> t.held, victims |-> V, pos |-> t.pos,
                 scrubbed |-> t.scrubbed, id |-> t.id, image |-> t.image, todo |-> t.todo]
    BY ONLY <1>0 DEF r1
  <1>2. r2 = [q |-> t.q, n |-> t.n, held |-> t.held, victims |-> V, pos |-> t.pos,
                 scrubbed |-> t.scrubbed, id |-> t.id, image |-> t.image, todo |-> todo]
    BY ONLY <1>1 DEF r2
  <1>3. r3 = [q |-> t.q, n |-> t.n, held |-> t.held, victims |-> V, pos |-> pos,
                 scrubbed |-> t.scrubbed, id |-> t.id, image |-> t.image, todo |-> todo]
    BY ONLY <1>2 DEF r3
  <1>4. r4 = [q |-> t.q, n |-> t.n, held |-> t.held, victims |-> V, pos |-> pos,
                 scrubbed |-> t.scrubbed, id |-> t.id, image |-> image, todo |-> todo]
    BY ONLY <1>3 DEF r4
  <1>5. r5 = [q |-> t.q, n |-> t.n, held |-> t.held, victims |-> V, pos |-> pos,
                 scrubbed |-> scrubbed, id |-> t.id, image |-> image, todo |-> todo]
    BY ONLY <1>4 DEF r5
  <1> QED BY ONLY <1>e, <1>5

Answered(t, todo, id, image) == [t EXCEPT !.todo = todo, !.id = id, !.image = image]

LEMMA LocalFields ==
    ASSUME NEW t, IsTransaction(t), NEW todo, NEW id, NEW image
    PROVE  Answered(t, todo, id, image)
            = [q |-> t.q, n |-> t.n, held |-> t.held, victims |-> t.victims, pos |-> t.pos,
               scrubbed |-> t.scrubbed, id |-> id, image |-> image, todo |-> todo]
  <1> DEFINE r1 == [t EXCEPT !.todo = todo]
             r2 == [r1 EXCEPT !.id = id]
             r3 == [r2 EXCEPT !.image = image]
  <1>0. t = [q |-> t.q, n |-> t.n, held |-> t.held, victims |-> t.victims, pos |-> t.pos,
                scrubbed |-> t.scrubbed, id |-> t.id, image |-> t.image, todo |-> t.todo]
    BY DEF IsTransaction
  <1>e. Answered(t, todo, id, image) = r3
    BY DEF Answered
  <1> HIDE DEF r1, r2, r3
  <1>1. r1 = [q |-> t.q, n |-> t.n, held |-> t.held, victims |-> t.victims, pos |-> t.pos,
                 scrubbed |-> t.scrubbed, id |-> t.id, image |-> t.image, todo |-> todo]
    BY ONLY <1>0 DEF r1
  <1>2. r2 = [q |-> t.q, n |-> t.n, held |-> t.held, victims |-> t.victims, pos |-> t.pos,
                 scrubbed |-> t.scrubbed, id |-> id, image |-> t.image, todo |-> todo]
    BY ONLY <1>1 DEF r2
  <1>3. r3 = [q |-> t.q, n |-> t.n, held |-> t.held, victims |-> t.victims, pos |-> t.pos,
                 scrubbed |-> t.scrubbed, id |-> id, image |-> image, todo |-> todo]
    BY ONLY <1>2 DEF r3
  <1> QED BY ONLY <1>e, <1>3


\* The transaction of p after it got a row lock.
Locked(p, u, l) ==
    /\ tx' = [tx EXCEPT ![p] = u]
    /\ IsTransaction(u)
    /\ u.q = tx[p].q /\ u.todo = tx[p].todo
    /\ u.held = tx[p].held \cup {l}
    /\ u.victims = tx[p].victims /\ u.pos = tx[p].pos
    /\ u.image = tx[p].image /\ u.scrubbed = tx[p].scrubbed

\* What the transaction removes once its next statement is done.
Chosen(t) == IF Head(t.todo) \in {"cap", "parent"} THEN Victims(committed, t.q) ELSE t.victims

\* The transaction of p after a statement that does not end it.
Proceeds(p, u) ==
    LET t == tx[p]
        s == Head(t.todo)
    IN  /\ ~Stops(s, t.q)
        /\ tx' = [tx EXCEPT ![p] = u]
        /\ IsTransaction(u)
        /\ u.q = t.q /\ u.todo = Rest(t, Chosen(t))
        /\ u.held = t.held \cup Missing(p)
        /\ u.victims = Chosen(t)
        /\ u.pos = IF s = "room" THEN ReadPosition(committed, t.q) ELSE t.pos
        /\ u.image = IF s = "msg" THEN EventImage(committed, t.q) ELSE t.image
        /\ u.scrubbed = IF s = "scrub" THEN Scrubbed(t) ELSE t.scrubbed

-----------------------------------------------------------------------------
(* The operators that choose by operation, one equation each.              *)

\* The operations that write one row.
Rewrites == {"update", "delete", "react", "pin"}

LEMMA RoomAllowsEach ==
    ASSUME NEW d, NEW q, q.op \in Operations
    PROVE  /\ q.op = "createRoom" =>
                (RoomAllows(d, q) <=> Cardinality(d.rooms) < MaxRooms /\ q.room \notin d.rooms)
           /\ q.op = "deleteRoom" =>
                (RoomAllows(d, q) <=> q.room \in d.rooms /\ "archived" \in d.flags[q.room])
           /\ q.op \in {"setRoomState", "moderate", "read", "clear"} =>
                (RoomAllows(d, q) <=> q.room \in d.rooms)
           /\ q.op = "retain" => RoomAllows(d, q)
           /\ q.op \in Rewrites \cup {"create"} => (RoomAllows(d, q) <=> Writable(d, q))
  <1>1. q.op = "createRoom" =>
                (RoomAllows(d, q) <=> Cardinality(d.rooms) < MaxRooms /\ q.room \notin d.rooms)
    BY Zenon DEF RoomAllows
  <1>2. q.op = "deleteRoom" =>
                (RoomAllows(d, q) <=> q.room \in d.rooms /\ "archived" \in d.flags[q.room])
    BY Zenon DEF RoomAllows
  <1>3. q.op \in {"setRoomState", "moderate", "read", "clear"} =>
                (RoomAllows(d, q) <=> q.room \in d.rooms)
    BY Zenon DEF RoomAllows
  <1>4. q.op = "retain" => RoomAllows(d, q)
    BY Zenon DEF RoomAllows
  <1>5. q.op \in {"update", "delete", "react", "pin", "create"} => (RoomAllows(d, q) <=> Writable(d, q))
    BY Zenon DEF RoomAllows
  <1> QED BY <1>1, <1>2, <1>3, <1>4, <1>5 DEF Rewrites

LEMMA RowAllowsEach ==
    ASSUME NEW d, NEW q, q.op \in Operations
    PROVE  /\ q.op = "create" => (RowAllows(d, q) <=> ParentAllows(d, q))
           /\ q.op = "update" => (RowAllows(d, q) <=> Live(d, q) /\ Owned(d, q))
           /\ q.op = "delete" => (RowAllows(d, q) <=> Target(d, q) /\ Owned(d, q))
           /\ q.op = "react" =>
                (RowAllows(d, q) <=>
                    /\ Live(d, q)
                    /\ \/ ~q.on \/ Reacted(d, q) \/ q.emoji \in UsedEmojis(d, q)
                       \/ Cardinality(UsedEmojis(d, q)) < MaxEmojis)
           /\ q.op = "pin" => (RowAllows(d, q) <=> Live(d, q))
           /\ q.op = "read" =>
                (RowAllows(d, q) <=>
                    /\ q.msg # 0 => Target(d, q)
                    /\ \/ d.cursor[q.room][q.by] # 0
                       \/ Cardinality(HasCursor(d, q.room)) < MaxCursors)
           /\ q.op \in {"createRoom", "setRoomState", "deleteRoom", "moderate", "clear", "retain"} =>
                RowAllows(d, q)
  <1>1. q.op = "create" => (RowAllows(d, q) <=> ParentAllows(d, q))
    BY Zenon DEF RowAllows
  <1>2. q.op = "update" => (RowAllows(d, q) <=> Live(d, q) /\ Owned(d, q))
    BY Zenon DEF RowAllows
  <1>3. q.op = "delete" => (RowAllows(d, q) <=> Target(d, q) /\ Owned(d, q))
    BY Zenon DEF RowAllows
  <1>4. q.op = "react" =>
                (RowAllows(d, q) <=>
                    /\ Live(d, q)
                    /\ \/ ~q.on \/ Reacted(d, q) \/ q.emoji \in UsedEmojis(d, q)
                       \/ Cardinality(UsedEmojis(d, q)) < MaxEmojis)
    BY Zenon DEF RowAllows
  <1>5. q.op = "pin" => (RowAllows(d, q) <=> Live(d, q))
    BY Zenon DEF RowAllows
  <1>6. q.op = "read" =>
                (RowAllows(d, q) <=>
                    /\ q.msg # 0 => Target(d, q)
                    /\ \/ d.cursor[q.room][q.by] # 0
                       \/ Cardinality(HasCursor(d, q.room)) < MaxCursors)
    BY Zenon DEF RowAllows
  <1>7. q.op \in {"createRoom", "setRoomState", "deleteRoom", "moderate", "clear", "retain"} =>
                RowAllows(d, q)
    BY Zenon DEF RowAllows
  <1> QED BY <1>1, <1>2, <1>3, <1>4, <1>5, <1>6, <1>7, Zenon

LEMMA ChangesEach ==
    ASSUME NEW d, NEW q, q.op \in Operations
    PROVE  /\ q.op = "create" => (Changes(d, q) <=> ~Replayed(d, q))
           /\ q.op = "delete" => (Changes(d, q) <=> ~d.msg[q.msg].deleted)
           /\ q.op = "react" => (Changes(d, q) <=> (Reacted(d, q) # q.on))
           /\ q.op = "pin" => (Changes(d, q) <=> ((d.msg[q.msg].pin # None) # q.on))
           /\ q.op = "read" => (Changes(d, q) <=> ReadPosition(d, q) > d.cursor[q.room][q.by])
           /\ q.op = "clear" => (Changes(d, q) <=> d.cursor[q.room][q.by] # 0)
           /\ q.op = "setRoomState" =>
                (Changes(d, q) <=> Patched(d.flags[q.room], q.flags) # d.flags[q.room])
           /\ q.op \in {"createRoom", "deleteRoom", "moderate", "retain", "update"} => Changes(d, q)
  <1>1. q.op = "create" => (Changes(d, q) <=> ~Replayed(d, q))
    BY Zenon DEF Changes
  <1>2. q.op = "delete" => (Changes(d, q) <=> ~d.msg[q.msg].deleted)
    BY Zenon DEF Changes
  <1>3. q.op = "react" => (Changes(d, q) <=> (Reacted(d, q) # q.on))
    BY Zenon DEF Changes
  <1>4. q.op = "pin" => (Changes(d, q) <=> ((d.msg[q.msg].pin # None) # q.on))
    BY Zenon DEF Changes
  <1>5. q.op = "read" => (Changes(d, q) <=> ReadPosition(d, q) > d.cursor[q.room][q.by])
    BY Zenon DEF Changes
  <1>6. q.op = "clear" => (Changes(d, q) <=> d.cursor[q.room][q.by] # 0)
    BY Zenon DEF Changes
  <1>7. q.op = "setRoomState" =>
                (Changes(d, q) <=> Patched(d.flags[q.room], q.flags) # d.flags[q.room])
    BY Zenon DEF Changes
  <1>8. q.op \in {"createRoom", "deleteRoom", "moderate", "retain", "update"} => Changes(d, q)
    BY Zenon DEF Changes
  <1> QED BY <1>1, <1>2, <1>3, <1>4, <1>5, <1>6, <1>7, <1>8, Zenon

LEMMA VictimsEach ==
    ASSUME NEW d, NEW q, q.op \in Operations
    PROVE  /\ q.op = "create" => Victims(d, q) = Trimmed(d, q)
           /\ q.op = "retain" => Victims(d, q) = {i \in DOMAIN d.msg : i <= q.cut}
           /\ q.op = "deleteRoom" => Victims(d, q) = InRoom(d, q.room)
           /\ q.op \notin {"create", "retain", "deleteRoom"} => Victims(d, q) = {}
  <1>1. q.op = "create" => Victims(d, q) = Trimmed(d, q)
    BY Zenon DEF Victims
  <1>2. q.op = "retain" => Victims(d, q) = {i \in DOMAIN d.msg : i <= q.cut}
    BY Zenon DEF Victims
  <1>3. q.op = "deleteRoom" => Victims(d, q) = InRoom(d, q.room)
    BY Zenon DEF Victims
  <1>4. q.op \notin {"create", "retain", "deleteRoom"} => Victims(d, q) = {}
    BY Zenon DEF Victims
  <1> QED BY <1>1, <1>2, <1>3, <1>4, Zenon

LEMMA StopsEach ==
    ASSUME NEW s, NEW q
    PROVE  /\ s = "roomcap" => (Stops(s, q) <=> Cardinality(committed.rooms) >= MaxRooms)
           /\ s = "room" => (Stops(s, q) <=> RoomStops(q))
           /\ s = "parent" => (Stops(s, q) <=> ~RowAllows(committed, q))
           /\ s = "msg" => (Stops(s, q) <=> ~(RowAllows(committed, q) /\ Changes(committed, q)))
  <1>1. s = "roomcap" => (Stops(s, q) <=> Cardinality(committed.rooms) >= MaxRooms)
    BY Zenon DEF Stops
  <1>2. s = "room" => (Stops(s, q) <=> RoomStops(q))
    BY Zenon DEF Stops
  <1>3. s = "parent" => (Stops(s, q) <=> ~RowAllows(committed, q))
    BY Zenon DEF Stops
  <1>4. s = "msg" => (Stops(s, q) <=> ~(RowAllows(committed, q) /\ Changes(committed, q)))
    BY Zenon DEF Stops
  <1> QED BY <1>1, <1>2, <1>3, <1>4, Zenon

\* The locks of statement s of t.
Wanted(t, s) ==
    CASE s = "room" -> IF t.q.op = "createRoom" \/ t.q.room \in committed.rooms
                       THEN {Lock("room", t.q.room)} ELSE {}
      [] s \in {"msg", "parent"} -> MessageLock(t.q)
      [] s = "rows" -> DeleteLocks(t.victims)
      [] s = "scrub" -> {}
      [] OTHER -> {Lock(s, None)}

LEMMA MissingWanted ==
    ASSUME NEW p
    PROVE  Missing(p) = Wanted(tx[p], Head(tx[p].todo)) \ tx[p].held
  BY Zenon DEF Missing, Wanted

LEMMA WantedEach ==
    ASSUME NEW t, NEW s
    PROVE  /\ s = "room" => Wanted(t, s) = IF t.q.op = "createRoom" \/ t.q.room \in committed.rooms
                                           THEN {Lock("room", t.q.room)} ELSE {}
           /\ s \in {"msg", "parent"} => Wanted(t, s) = MessageLock(t.q)
           /\ s = "rows" => Wanted(t, s) = DeleteLocks(t.victims)
           /\ s = "scrub" => Wanted(t, s) = {}
           /\ s \in {"cap", "roomcap", "audit", "webhook"} => Wanted(t, s) = {Lock(s, None)}
  <1>1. s = "room" => Wanted(t, s) = IF t.q.op = "createRoom" \/ t.q.room \in committed.rooms
                                           THEN {Lock("room", t.q.room)} ELSE {}
    BY Zenon DEF Wanted
  <1>2. s \in {"msg", "parent"} => Wanted(t, s) = MessageLock(t.q)
    BY Zenon DEF Wanted
  <1>3. s = "rows" => Wanted(t, s) = DeleteLocks(t.victims)
    BY Zenon DEF Wanted
  <1>4. s = "scrub" => Wanted(t, s) = {}
    BY Zenon DEF Wanted
  <1>5. s \in {"cap", "roomcap", "audit", "webhook"} => Wanted(t, s) = {Lock(s, None)}
    BY Zenon DEF Wanted
  <1> QED BY <1>1, <1>2, <1>3, <1>4, <1>5, Zenon

\* Stages, operation by operation.
Table(q, St) ==
    /\ q.op = "create" => St = <<"room", "cap", "parent", "rows", "scrub", "audit", "webhook">>
    /\ q.op = "update" => St = <<"room", "cap", "msg", "audit", "webhook">>
    /\ q.op = "delete" => St = <<"room", "cap", "msg", "scrub", "audit", "webhook">>
    /\ q.op = "react" => St = <<"room", "msg", "webhook">>
    /\ q.op = "pin" => St = <<"room", "msg", "audit", "webhook">>
    /\ q.op = "moderate" => St = <<"room", "audit", "webhook">>
    /\ q.op = "retain" => St = <<"cap", "rows", "scrub", "audit", "webhook">>
    /\ q.op = "deleteRoom" => St = <<"room", "cap", "scrub", "audit", "webhook", "rows">>
    /\ q.op = "createRoom" => St = <<"roomcap", "room", "audit">>
    /\ q.op = "setRoomState" => St = <<"room", "audit">>
    /\ q.op \in {"read", "clear"} => St = <<"room">>

LEMMA StagesEach ==
    ASSUME NEW q, q.op \in Operations
    PROVE  Table(q, Stages(q))
  <1>1. q.op = "create" =>
            Stages(q) = <<"room", "cap", "parent", "rows", "scrub", "audit", "webhook">>
    BY Zenon DEF Stages, CreateOrder
  <1>2. q.op = "update" => Stages(q) = <<"room", "cap", "msg", "audit", "webhook">>
    BY Zenon DEF Stages
  <1>3. q.op = "delete" => Stages(q) = <<"room", "cap", "msg", "scrub", "audit", "webhook">>
    BY Zenon DEF Stages
  <1>4. q.op = "react" => Stages(q) = <<"room", "msg", "webhook">>
    BY Zenon DEF Stages
  <1>5. q.op = "pin" => Stages(q) = <<"room", "msg", "audit", "webhook">>
    BY Zenon DEF Stages
  <1>6. q.op = "moderate" => Stages(q) = <<"room", "audit", "webhook">>
    BY Zenon DEF Stages
  <1>7. q.op = "retain" => Stages(q) = <<"cap", "rows", "scrub", "audit", "webhook">>
    BY Zenon DEF Stages
  <1>8. q.op = "deleteRoom" => Stages(q) = <<"room", "cap", "scrub", "audit", "webhook", "rows">>
    BY Zenon DEF Stages
  <1>9. q.op = "createRoom" => Stages(q) = <<"roomcap", "room", "audit">>
    BY Zenon DEF Stages
  <1>10. q.op = "setRoomState" => Stages(q) = <<"room", "audit">>
    BY Zenon DEF Stages
  <1>11. q.op \in {"read", "clear"} => Stages(q) = <<"room">>
    BY Zenon DEF Stages
  <1> QED BY <1>1, <1>2, <1>3, <1>4, <1>5, <1>6, <1>7, <1>8, <1>9, <1>10, <1>11, Zenon DEF Table

\* What precedes what in St.
Ordered(q, St) ==
    /\ St \in Seq(StageNames)
    /\ Len(St) \in 1..7
    /\ \A i \in 1..Len(St) : St[i] \in StageNames
    /\ \A i \in 1..Len(St) : St[i] = "rows" => \E j \in 1..(i - 1) : St[j] = "cap"
    /\ q.op = "createRoom" =>
          \A i \in 1..Len(St) : St[i] = "room" => \E j \in 1..(i - 1) : St[j] = "roomcap"
    /\ \A i \in 1..Len(St) :
          /\ St[i] = "parent" => q.op = "create"
          /\ St[i] = "msg" => q.op \in Rewrites
          /\ St[i] = "rows" => q.op \in {"create", "retain", "deleteRoom"}
          /\ St[i] = "room" => q.op # "retain"

LEMMA StageOrder ==
    ASSUME NEW q, q.op \in Operations
    PROVE  Ordered(q, Stages(q))
  <1> DEFINE St == Stages(q)
  <1>1. Table(q, St)
    BY StagesEach
  <1> HIDE DEF St
  <1>2. ASSUME q.op = "create" PROVE Ordered(q, St)
    <2>1. St = <<"room", "cap", "parent", "rows", "scrub", "audit", "webhook">>
      BY <1>1, <1>2, Zenon DEF Table
    <2> QED BY ONLY <2>1, <1>2 DEF Ordered, StageNames, Rewrites
  <1>3. ASSUME q.op = "update" PROVE Ordered(q, St)
    <2>1. St = <<"room", "cap", "msg", "audit", "webhook">>
      BY <1>1, <1>3, Zenon DEF Table
    <2> QED BY ONLY <2>1, <1>3 DEF Ordered, StageNames, Rewrites
  <1>4. ASSUME q.op = "delete" PROVE Ordered(q, St)
    <2>1. St = <<"room", "cap", "msg", "scrub", "audit", "webhook">>
      BY <1>1, <1>4, Zenon DEF Table
    <2> QED BY ONLY <2>1, <1>4 DEF Ordered, StageNames, Rewrites
  <1>5. ASSUME q.op = "react" PROVE Ordered(q, St)
    <2>1. St = <<"room", "msg", "webhook">>
      BY <1>1, <1>5, Zenon DEF Table
    <2> QED BY ONLY <2>1, <1>5 DEF Ordered, StageNames, Rewrites
  <1>6. ASSUME q.op = "pin" PROVE Ordered(q, St)
    <2>1. St = <<"room", "msg", "audit", "webhook">>
      BY <1>1, <1>6, Zenon DEF Table
    <2> QED BY ONLY <2>1, <1>6 DEF Ordered, StageNames, Rewrites
  <1>7. ASSUME q.op = "moderate" PROVE Ordered(q, St)
    <2>1. St = <<"room", "audit", "webhook">>
      BY <1>1, <1>7, Zenon DEF Table
    <2> QED BY ONLY <2>1, <1>7 DEF Ordered, StageNames, Rewrites
  <1>8. ASSUME q.op = "retain" PROVE Ordered(q, St)
    <2>1. St = <<"cap", "rows", "scrub", "audit", "webhook">>
      BY <1>1, <1>8, Zenon DEF Table
    <2> QED BY ONLY <2>1, <1>8 DEF Ordered, StageNames, Rewrites
  <1>9. ASSUME q.op = "deleteRoom" PROVE Ordered(q, St)
    <2>1. St = <<"room", "cap", "scrub", "audit", "webhook", "rows">>
      BY <1>1, <1>9, Zenon DEF Table
    <2> QED BY ONLY <2>1, <1>9 DEF Ordered, StageNames, Rewrites
  <1>10. ASSUME q.op = "createRoom" PROVE Ordered(q, St)
    <2>1. St = <<"roomcap", "room", "audit">>
      BY <1>1, <1>10, Zenon DEF Table
    <2> QED BY ONLY <2>1, <1>10 DEF Ordered, StageNames, Rewrites
  <1>11. ASSUME q.op = "setRoomState" PROVE Ordered(q, St)
    <2>1. St = <<"room", "audit">>
      BY <1>1, <1>11, Zenon DEF Table
    <2> QED BY ONLY <2>1, <1>11 DEF Ordered, StageNames, Rewrites
  <1>12. ASSUME q.op \in {"read", "clear"} PROVE Ordered(q, St)
    <2>1. St = <<"room">>
      BY <1>1, <1>12, Zenon DEF Table
    <2> QED BY ONLY <2>1, <1>12 DEF Ordered, StageNames, Rewrites
  <1> QED BY <1>2, <1>3, <1>4, <1>5, <1>6, <1>7, <1>8, <1>9, <1>10, <1>11, <1>12, Zenon DEF Operations, St

\* At its commit a transaction has passed every statement of its operation.
LEMMA AllStages ==
    ASSUME NEW t, t.q.op \in Operations, t.todo = <<>>
    PROVE  /\ t.q.op # "retain" => Passed(t, "room")
           /\ t.q.op \in {"create", "update", "delete", "retain", "deleteRoom"} => Passed(t, "cap")
           /\ t.q.op = "create" => Passed(t, "parent")
           /\ t.q.op \in Rewrites => Passed(t, "msg")
           /\ t.q.op \in {"create", "retain", "deleteRoom"} => Passed(t, "rows")
           /\ t.q.op = "createRoom" => Passed(t, "roomcap")
  <1> DEFINE q == t.q
             St == Stages(q)
  <1>1. Table(q, St)
    BY StagesEach
  <1>0. Len(t.todo) = 0
    OBVIOUS
  <1>a. \A s : Passed(t, s) <=> \E j \in 1..(Len(St) - 0) : St[j] = s
    BY <1>0, Zenon DEF Passed, Position
  <1> HIDE DEF St, q
  <1>2. CASE q.op = "create"
    <2>1. Len(St) = 7 /\ St[1] = "room" /\ St[2] = "cap" /\ St[3] = "parent" /\ St[4] = "rows"
      BY <1>1, <1>2 DEF Table
    <2> QED BY <2>1, <1>2, <1>a DEF Rewrites, q
  <1>3. CASE q.op = "update"
    <2>1. Len(St) = 5 /\ St[1] = "room" /\ St[2] = "cap" /\ St[3] = "msg"
      BY <1>1, <1>3 DEF Table
    <2> QED BY <2>1, <1>3, <1>a DEF Rewrites, q
  <1>4. CASE q.op = "delete"
    <2>1. Len(St) = 6 /\ St[1] = "room" /\ St[2] = "cap" /\ St[3] = "msg"
      BY <1>1, <1>4 DEF Table
    <2> QED BY <2>1, <1>4, <1>a DEF Rewrites, q
  <1>5. CASE q.op \in {"react", "pin"}
    <2>1. Len(St) \in 3..4 /\ St[1] = "room" /\ St[2] = "msg"
      BY <1>1, <1>5 DEF Table
    <2> QED BY <2>1, <1>5, <1>a DEF Rewrites, q
  <1>6. CASE q.op \in {"moderate", "setRoomState", "read", "clear"}
    <2>1. Len(St) \in 1..3 /\ St[1] = "room"
      BY <1>1, <1>6 DEF Table
    <2> QED BY <2>1, <1>6, <1>a DEF Rewrites, q
  <1>7. CASE q.op = "retain"
    <2>1. Len(St) = 5 /\ St[1] = "cap" /\ St[2] = "rows"
      BY <1>1, <1>7 DEF Table
    <2> QED BY <2>1, <1>7, <1>a DEF Rewrites, q
  <1>8. CASE q.op = "deleteRoom"
    <2>1. Len(St) = 6 /\ St[1] = "room" /\ St[2] = "cap" /\ St[6] = "rows"
      BY <1>1, <1>8 DEF Table
    <2> QED BY <2>1, <1>8, <1>a DEF Rewrites, q
  <1>9. CASE q.op = "createRoom"
    <2>1. Len(St) = 3 /\ St[1] = "roomcap" /\ St[2] = "room"
      BY <1>1, <1>9 DEF Table
    <2> QED BY <2>1, <1>9, <1>a DEF Rewrites, q
  <1> QED BY <1>2, <1>3, <1>4, <1>5, <1>6, <1>7, <1>8, <1>9 DEF Operations, q

-----------------------------------------------------------------------------
(* What was read under a lock is still so after another commit.            *)

\* e follows d by a commit that holds L, none of which t holds.
Stands(d, e, L, t) ==
    /\ IsDatabase(d) /\ IsDatabase(e)
    /\ Moves(d, e, L)
    /\ t.held \cap L = {}
    /\ t.q \in Requests

LEMMA RequestTyped ==
    ASSUME NEW q \in Requests
    PROVE  /\ q \in Request
           /\ q.op \in Operations /\ q.room \in Rooms /\ q.by \in Members /\ q.msg \in 0..MaxIds
           /\ MaxIds \in Nat
  BY ConstantsAssumption DEF Request

\* The room lock keeps the room, its flags, cursors and client message ids; its
\* messages may only become fewer.
LEMMA SameRoom ==
    ASSUME NEW d, NEW e, NEW L, NEW t, Stands(d, e, L, t),
           Lock("room", t.q.room) \in t.held
    PROVE  LET r == t.q.room IN
           /\ r \in Rooms
           /\ r \in e.rooms <=> r \in d.rooms
           /\ e.flags[r] = d.flags[r]
           /\ e.cursor[r] = d.cursor[r]
           /\ \A m \in Members : e.control[r][m] \subseteq d.control[r][m]
           /\ InRoom(e, r) \subseteq InRoom(d, r)
           /\ \A i \in InRoom(e, r) : e.msg[i].key = d.msg[i].key
  <1> DEFINE r == t.q.room
  <1>1. r \in Rooms
    BY RequestTyped DEF Stands
  <1>2. Lock("room", r) \notin L
    BY DEF Stands
  <1>3. \A i \in DOMAIN e.msg : e.msg[i].room = r => i \in DOMAIN d.msg
    BY <1>2 DEF Stands, Moves
  <1>4. \A i \in DOMAIN e.msg \cap DOMAIN d.msg : e.msg[i].room = d.msg[i].room /\ e.msg[i].key = d.msg[i].key
    BY DEF Stands, Moves
  <1>5. InRoom(e, r) \subseteq InRoom(d, r) /\ \A i \in InRoom(e, r) : e.msg[i].key = d.msg[i].key
    BY <1>3, <1>4 DEF InRoom
  <1> QED BY <1>1, <1>2, <1>5 DEF Stands, Moves

\* The capacity lock keeps the set of messages, and so what is to be removed.
LEMMA SameCapacity ==
    ASSUME NEW d, NEW e, NEW L, NEW t, Stands(d, e, L, t),
           Lock("cap", None) \in t.held
    PROVE  /\ e.last = d.last
           /\ DOMAIN e.msg = DOMAIN d.msg
           /\ \A r : InRoom(e, r) = InRoom(d, r)
           /\ Victims(e, t.q) = Victims(d, t.q)
  <1>1. e.last = d.last /\ DOMAIN e.msg = DOMAIN d.msg
    BY DEF Stands, Moves
  <1>2. \A i \in DOMAIN d.msg : e.msg[i].room = d.msg[i].room
    BY <1>1 DEF Stands, Moves
  <1>3. \A r : InRoom(e, r) = InRoom(d, r)
    BY <1>1, <1>2 DEF InRoom
  <1>4. Trimmed(e, t.q) = Trimmed(d, t.q)
    BY <1>1, <1>3, Zenon DEF Trimmed
  <1>5. t.q.op \in Operations
    BY RequestTyped DEF Stands
  <1>6. Victims(e, t.q) = Victims(d, t.q)
    BY <1>1, <1>3, <1>4, <1>5, VictimsEach
  <1> QED BY <1>1, <1>3, <1>6

\* A row lock keeps the row, except that its parent may go away.
LEMMA SameRow ==
    ASSUME NEW d, NEW e, NEW L, NEW t, Stands(d, e, L, t),
           t.q.msg \in DOMAIN d.msg, Lock("msg", t.q.msg) \in t.held
    PROVE  LET i == t.q.msg IN
           /\ i \in DOMAIN e.msg
           /\ d.msg[i] \in Row /\ e.msg[i] \in Row
           /\ e.msg[i].room = d.msg[i].room /\ e.msg[i].by = d.msg[i].by
           /\ e.msg[i].text = d.msg[i].text /\ e.msg[i].reacts = d.msg[i].reacts
           /\ e.msg[i].pin = d.msg[i].pin /\ e.msg[i].deleted = d.msg[i].deleted
           /\ e.msg[i].parent \in {d.msg[i].parent, 0}
  <1> DEFINE i == t.q.msg
  <1>1. Lock("msg", i) \notin L
    BY DEF Stands
  <1>2. i \in DOMAIN e.msg
    BY <1>1 DEF Stands, Moves
  <1>3. d.msg[i] \in Row /\ e.msg[i] \in Row
    BY <1>2 DEF Stands, IsDatabase
  <1>4. /\ \A f \in {"room", "by", "key"} : e.msg[i][f] = d.msg[i][f]
        /\ e.msg[i].parent \in {d.msg[i].parent, 0}
        /\ \A f \in {"text", "reacts", "pin", "deleted"} : e.msg[i][f] = d.msg[i][f]
    BY <1>1, <1>2 DEF Stands, Moves
  <1> QED BY <1>2, <1>3, <1>4

\* The promise of the room lock survives the commits of others.
LEMMA RoomPromiseStands ==
    ASSUME NEW d, NEW e, NEW L, NEW t, Stands(d, e, L, t), RoomPromise(d, t)
    PROVE  RoomPromise(e, t)
  <1> DEFINE q == t.q
             r == q.room
  <1>0. Lock("room", r) \in t.held
    BY DEF RoomPromise
  <1>1. /\ r \in Rooms
        /\ r \in e.rooms <=> r \in d.rooms
        /\ e.flags[r] = d.flags[r]
        /\ e.cursor[r] = d.cursor[r]
        /\ \A m \in Members : e.control[r][m] \subseteq d.control[r][m]
        /\ InRoom(e, r) \subseteq InRoom(d, r)
        /\ \A i \in InRoom(e, r) : e.msg[i].key = d.msg[i].key
    BY <1>0, SameRoom
  <1>2. q \in Request /\ q.op \in Operations /\ q.by \in Members
    BY RequestTyped DEF Stands
  <1>3. RoomAllows(d, q)
    BY DEF RoomPromise
  <1> HIDE DEF q, r
  <1>4. CASE q.op = "createRoom"
    <2>1. Cardinality(d.rooms) < MaxRooms /\ r \notin d.rooms
      BY <1>3, <1>4, <1>2, RoomAllowsEach DEF r
    <2>2. e.rooms \subseteq d.rooms
      BY <1>4 DEF RoomPromise, Stands, Moves, q
    <2>3. IsFiniteSet(d.rooms) /\ IsFiniteSet(e.rooms)
      BY DEF Stands, IsDatabase
    <2>4. Cardinality(e.rooms) <= Cardinality(d.rooms) /\ Cardinality(e.rooms) \in Nat
            /\ Cardinality(d.rooms) \in Nat /\ MaxRooms \in Nat
      BY <2>2, <2>3, FS_Subset, FS_CardinalityType, ConstantsAssumption
    <2>5. RoomAllows(e, q)
      BY <2>1, <2>4, <1>1, <1>2, <1>4, RoomAllowsEach DEF r
    <2> QED BY <2>5, <1>0, <1>4 DEF RoomPromise, q, r
  <1>5. CASE q.op \in {"setRoomState", "clear", "deleteRoom", "moderate"}
    <2>1. RoomAllows(e, q)
      BY <1>1, <1>2, <1>3, <1>5, RoomAllowsEach DEF r
    <2>2. q.op \in {"setRoomState", "clear"} => (Changes(e, q) <=> Changes(d, q))
      BY <1>1, <1>2, ChangesEach DEF r
    <2> QED BY <2>1, <2>2, <1>0, <1>5 DEF RoomPromise, q, r
  <1>6. CASE q.op \in Rewrites \cup {"create"}
    <2>1. Writable(d, q)
      BY <1>2, <1>3, <1>6, RoomAllowsEach
    <2>2. Writable(e, q)
      BY <2>1, <1>1, <1>2 DEF Writable, r
    <2>3. RoomAllows(e, q)
      BY <2>2, <1>2, <1>6, RoomAllowsEach
    <2>4. Replayed(e, q) => Replayed(d, q)
      BY <1>1 DEF Replayed, r
    <2> QED BY <2>3, <2>4, <1>0, <1>6 DEF RoomPromise, q, r, Rewrites
  <1>7. CASE q.op = "read"
    <2>1. RoomAllows(e, q)
      BY <1>1, <1>2, <1>3, <1>7, RoomAllowsEach DEF r
    <2>2. HasCursor(e, r) = HasCursor(d, r)
      BY <1>1, Zenon DEF HasCursor
    <2>3. t.pos \in Readable(d, q)
      BY <1>7 DEF RoomPromise, q
    <2>4. /\ d.last \in Nat /\ e.last \in Nat /\ d.last <= e.last
          /\ DOMAIN d.msg \subseteq 1..d.last
      BY ConstantsAssumption DEF Stands, Moves, IsDatabase
    <2>5. \A i \in 1..d.last : (i \in DOMAIN d.msg => d.msg[i].room = r)
                                => (i \in DOMAIN e.msg => e.msg[i].room = r)
      <3> TAKE i \in 1..d.last
      <3>1. i \in DOMAIN e.msg => i \in DOMAIN d.msg
        BY <2>4 DEF Stands, Moves
      <3>2. i \in DOMAIN e.msg /\ i \in DOMAIN d.msg => e.msg[i].room = d.msg[i].room
        BY DEF Stands, Moves
      <3> QED BY <3>1, <3>2
    <2> DEFINE seen(x) == {i \in 1..x.last : i \in DOMAIN x.msg => x.msg[i].room = r}
    <2>6. seen(d) \subseteq seen(e)
      BY <2>4, <2>5
    <2>7. \A x : Readable(x, q) =
                IF q.msg # 0 THEN {2 * i : i \in seen(x) \cap {q.msg}}
                ELSE {2 * i : i \in seen(x)} \cup {2 * i + 1 : i \in 0..x.last}
      BY DEF Readable, r
    <2> HIDE DEF seen
    <2>8. t.pos \in Readable(e, q)
      BY <2>3, <2>4, <2>6, <2>7
    <2> QED BY <2>1, <2>2, <2>8, <1>0, <1>1, <1>7 DEF RoomPromise, q, r
  <1>8. CASE q.op = "retain"
    <2>1. RoomAllows(e, q)
      BY <1>2, <1>8, RoomAllowsEach
    <2> QED BY <2>1, <1>0, <1>8 DEF RoomPromise, q, r
  <1> QED BY <1>2, <1>4, <1>5, <1>6, <1>7, <1>8 DEF Operations, Rewrites

\* The promise of a message lock survives the commits of others.
LEMMA RowPromiseStands ==
    ASSUME NEW d, NEW e, NEW L, NEW t, Stands(d, e, L, t),
           t.q.op \in Rewrites \cup {"create"}, RowPromise(d, t)
    PROVE  RowPromise(e, t)
  <1> DEFINE q == t.q
             i == q.msg
  <1>2. q \in Request /\ q.op \in Operations /\ i \in 0..MaxIds
    BY RequestTyped DEF Stands
  <1>3. RowAllows(d, q) /\ (q.op # "create" => Changes(d, q)) /\ (i # 0 => Lock("msg", i) \in t.held)
    BY DEF RowPromise
  <1>4. 0 \notin DOMAIN d.msg
    BY DEF Stands, IsDatabase
  <1>5. ASSUME Target(d, q)
        PROVE  /\ Target(e, q)
               /\ e.msg[i].by = d.msg[i].by /\ e.msg[i].reacts = d.msg[i].reacts
               /\ e.msg[i].pin = d.msg[i].pin /\ e.msg[i].deleted = d.msg[i].deleted
               /\ e.msg[i].parent \in {d.msg[i].parent, 0}
    <2>1. i \in DOMAIN d.msg /\ d.msg[i].room = q.room
      BY <1>5 DEF Target, InRoom
    <2>2. Lock("msg", i) \in t.held
      BY <2>1, <1>3, <1>4
    <2>3. /\ i \in DOMAIN e.msg
          /\ e.msg[i].room = d.msg[i].room /\ e.msg[i].by = d.msg[i].by
          /\ e.msg[i].reacts = d.msg[i].reacts
          /\ e.msg[i].pin = d.msg[i].pin /\ e.msg[i].deleted = d.msg[i].deleted
          /\ e.msg[i].parent \in {d.msg[i].parent, 0}
      BY <2>1, <2>2, SameRow, SMTT(30)
    <2> QED BY <2>1, <2>3 DEF Target, InRoom
  <1> HIDE DEF q, i
  <1>6. Target(d, q) => /\ Live(d, q) => Live(e, q)
                        /\ Owned(d, q) => Owned(e, q)
                        /\ Reacted(e, q) = Reacted(d, q)
                        /\ UsedEmojis(e, q) = UsedEmojis(d, q)
    BY <1>5 DEF Live, Owned, Reacted, UsedEmojis, i
  <1>7. Live(d, q) => Target(d, q)
    BY DEF Live
  <1>8. CASE q.op = "create"
    <2>1. ParentAllows(d, q)
      BY <1>2, <1>3, <1>8, RowAllowsEach
    <2>2. ParentAllows(e, q)
      BY <2>1, <1>5, <1>6, <1>7 DEF ParentAllows, i
    <2>3. RowAllows(e, q)
      BY <2>2, <1>2, <1>8, RowAllowsEach
    <2> QED BY <2>3, <1>3, <1>8 DEF RowPromise, q, i
  <1>9. CASE q.op = "update"
    <2>1. RowAllows(e, q) /\ Changes(e, q)
      BY <1>2, <1>3, <1>5, <1>6, <1>7, <1>9, RowAllowsEach, ChangesEach
    <2> QED BY <2>1, <1>3 DEF RowPromise, q, i
  <1>10. CASE q.op = "delete"
    <2>1. RowAllows(e, q)
      BY <1>2, <1>3, <1>5, <1>6, <1>7, <1>10, RowAllowsEach
    <2>2. Changes(e, q)
      BY <1>2, <1>3, <1>5, <1>10, RowAllowsEach, ChangesEach DEF i
    <2> QED BY <2>1, <2>2, <1>3 DEF RowPromise, q, i
  <1>11. CASE q.op = "react"
    <2>1. RowAllows(e, q)
      BY <1>2, <1>3, <1>5, <1>6, <1>7, <1>11, RowAllowsEach
    <2>2. Changes(e, q)
      BY <1>2, <1>3, <1>5, <1>6, <1>7, <1>11, RowAllowsEach, ChangesEach DEF i
    <2> QED BY <2>1, <2>2, <1>3 DEF RowPromise, q, i
  <1>12. CASE q.op = "pin"
    <2>1. RowAllows(e, q)
      BY <1>2, <1>3, <1>5, <1>6, <1>7, <1>12, RowAllowsEach
    <2>2. Changes(e, q)
      BY <1>2, <1>3, <1>5, <1>6, <1>7, <1>12, RowAllowsEach, ChangesEach DEF i
    <2> QED BY <2>1, <2>2, <1>3 DEF RowPromise, q, i
  <1> QED BY <1>8, <1>9, <1>10, <1>11, <1>12 DEF Rewrites, q

-----------------------------------------------------------------------------
(* The statements of a transaction, in their order.                        *)

\* What a transaction must have done before.
LEMMA PassedOrder ==
    ASSUME NEW t, t.q.op \in Operations, OnTrack(t)
    PROVE  /\ Passed(t, "rows") => Passed(t, "cap")
           /\ Passed(t, "parent") => t.q.op = "create"
           /\ Passed(t, "msg") => t.q.op \in Rewrites
           /\ Passed(t, "room") => t.q.op # "retain"
           /\ Position(t) \in 0..Len(Stages(t.q))
  <1>1. Ordered(t.q, Stages(t.q))
    BY StageOrder
  <1> DEFINE St == Stages(t.q)
  <1>2. Len(t.todo) \in Nat /\ Len(t.todo) <= Len(St) /\ Len(St) \in Nat
    BY <1>1 DEF OnTrack, Ordered
  <1>3. Position(t) \in 0..Len(St)
    <2>1. Position(t) = Len(St) - Len(t.todo)
      BY DEF Position
    <2> HIDE DEF St
    <2> QED BY ONLY <2>1, <1>2
  <1> HIDE DEF St
  <1>4. \A s : Passed(t, s) <=> \E j \in 1..Position(t) : St[j] = s
    BY DEF Passed, St
  <1> QED BY <1>1, <1>3, <1>4 DEF Ordered, St

LEMMA HeadOrder ==
    ASSUME NEW t, t.q.op \in Operations, OnTrack(t), t.todo # <<>>
    PROVE  LET s == Head(t.todo) IN
           /\ s \in StageNames
           /\ s = "rows" => Passed(t, "cap") /\ t.q.op \in {"create", "retain", "deleteRoom"}
           /\ s = "parent" => t.q.op = "create"
           /\ s = "msg" => t.q.op \in Rewrites
           /\ s = "room" => /\ t.q.op # "retain"
                            /\ t.q.op = "createRoom" => Passed(t, "roomcap")
  <1>1. Ordered(t.q, Stages(t.q))
    BY StageOrder
  <1> DEFINE St == Stages(t.q)
             k == Position(t) + 1
  <1>2. Len(t.todo) \in Nat \ {0} /\ Len(t.todo) <= Len(St) /\ Len(St) \in Nat
    BY <1>1 DEF OnTrack, Ordered
  <1>3. k \in 1..Len(St) /\ k - 1 = Position(t)
    BY <1>2 DEF Position
  <1>4. Head(t.todo) = St[k]
    BY <1>2, <1>3 DEF OnTrack
  <1> HIDE DEF St, k
  <1>5. \A s : Passed(t, s) <=> \E j \in 1..(k - 1) : St[j] = s
    BY <1>3 DEF Passed, St
  <1> QED BY <1>1, <1>3, <1>4, <1>5 DEF Ordered, St

LEMMA TailOnTrack ==
    ASSUME NEW t, t.q.op \in Operations, OnTrack(t), t.todo # <<>>,
           NEW u, u.q = t.q, u.todo = Tail(t.todo)
    PROVE  /\ OnTrack(u)
           /\ \A s : Passed(u, s) <=> Passed(t, s) \/ s = Head(t.todo)
  <1>1. Ordered(t.q, Stages(t.q))
    BY StageOrder
  <1> DEFINE St == Stages(t.q)
             n == Len(t.todo)
             k == Position(t)
  <1>2. n \in Nat \ {0} /\ n <= Len(St) /\ Len(St) \in Nat
    BY <1>1 DEF OnTrack, Ordered
  <1>3. k = Len(St) - n /\ k \in Nat
    BY <1>2 DEF Position
  <1>4. /\ u.todo \in Seq(StageNames)
        /\ Len(u.todo) = n - 1
        /\ \A i \in 1..(n - 1) : u.todo[i] = t.todo[i + 1]
    BY <1>2 DEF OnTrack
  <1>5. \A i \in 1..n : t.todo[i] = St[k + i]
    BY DEF OnTrack
  <1>6. Head(t.todo) = St[k + 1]
    BY <1>2, <1>5 DEF OnTrack
  <1>7. Stages(u.q) = St
    OBVIOUS
  <1>8. Position(u) = k + 1
    <2>1. Position(u) = Len(St) - Len(u.todo)
      BY <1>7 DEF Position
    <2>2. Len(u.todo) = n - 1
      BY <1>4
    <2> HIDE DEF St, k, n
    <2>3. Len(St) - (n - 1) = k + 1
      BY ONLY <1>2, <1>3
    <2> QED BY ONLY <2>1, <2>2, <2>3
  <1> HIDE DEF St, n, k
  <1>9. \A i \in 1..(n - 1) : u.todo[i] = St[(k + 1) + i]
    <2> TAKE i \in 1..(n - 1)
    <2>1. i + 1 \in 1..n /\ k + (i + 1) = (k + 1) + i
      BY <1>2, <1>3
    <2> QED BY <2>1, <1>4, <1>5
  <1>10. OnTrack(u)
    BY <1>2, <1>4, <1>7, <1>8, <1>9 DEF OnTrack
  <1>11. \A s : /\ Passed(t, s) <=> \E j \in 1..k : St[j] = s
                /\ Passed(u, s) <=> \E j \in 1..(k + 1) : St[j] = s
    BY <1>7, <1>8 DEF Passed, St, k
  <1> QED BY <1>3, <1>6, <1>10, <1>11

\* A transaction stays on track; a creation that removes nothing skips the
\* statements about removal.
LEMMA RestOnTrack ==
    ASSUME NEW t, t.q.op \in Operations, OnTrack(t), t.todo # <<>>,
           NEW V, NEW u, u.q = t.q, u.todo = Rest(t, V)
    PROVE  /\ OnTrack(u)
           /\ \A s : Passed(u, s) =>
                 \/ Passed(t, s) \/ s = Head(t.todo)
                 \/ s \in {"rows", "scrub", "audit"} /\ V = {} /\ t.q.op = "create"
  <1>1. CASE t.q.op = "create" /\ V = {} /\ Len(t.todo) > 1 /\ t.todo[2] = "rows"
    <2>1. u.todo = <<"webhook">>
      BY <1>1 DEF Rest
    <2> DEFINE St == Stages(t.q)
    <2>2. St = <<"room", "cap", "parent", "rows", "scrub", "audit", "webhook">>
      BY <1>1, StagesEach DEF Table
    <2> HIDE DEF St
    <2>3. /\ Len(St) = 7 /\ St[1] = "room" /\ St[2] = "cap" /\ St[3] = "parent" /\ St[4] = "rows"
          /\ St[5] = "scrub" /\ St[6] = "audit" /\ St[7] = "webhook"
      BY <2>2
    <2>4. Len(u.todo) = 1 /\ u.todo[1] = "webhook" /\ u.todo \in Seq(StageNames)
      BY <2>1 DEF StageNames
    <2>5. Position(u) = 6
      BY <2>3, <2>4 DEF Position, St
    <2>6. OnTrack(u)
      BY <2>3, <2>4, <2>5 DEF OnTrack, St
    <2> DEFINE n == Len(t.todo)
               k == Position(t)
    <2>7. n \in 2..7 /\ k = 7 - n
      <3>1. n \in Nat /\ n <= Len(St) /\ n > 1
        BY <1>1 DEF OnTrack, St
      <3>2. k = Len(St) - n
        BY DEF Position, St
      <3> HIDE DEF n, k
      <3> QED BY <3>1, <3>2, <2>3
    <2>8. \A i \in 1..n : t.todo[i] = St[k + i]
      BY DEF OnTrack, St
    <2>h. Head(t.todo) = t.todo[1]
      BY DEF OnTrack
    <2> HIDE DEF n, k
    <2>10. k = 2 /\ Head(t.todo) = St[3]
      <3>1. k + 2 \in 1..7 /\ St[k + 2] = "rows"
        BY <1>1, <2>7, <2>8
      <3>2. \A i \in 1..7 : St[i] = "rows" => i = 4
        BY <2>3
      <3>3. k + 2 = 4
        BY <3>1, <3>2
      <3>4. k = 2
        BY <3>3, <2>7
      <3> QED BY <3>4, <2>7, <2>8, <2>h
    <2>9. \A s : /\ Passed(t, s) <=> \E j \in 1..2 : St[j] = s
                 /\ Passed(u, s) <=> \E j \in 1..6 : St[j] = s
      BY <2>5, <2>10 DEF Passed, St, k
    <2> QED BY <2>3, <2>6, <2>10, <2>9, <1>1
  <1>2. CASE ~(t.q.op = "create" /\ V = {} /\ Len(t.todo) > 1 /\ t.todo[2] = "rows")
    <2>1. u.todo = Tail(t.todo)
      BY <1>2 DEF Rest
    <2> QED BY <2>1, TailOnTrack
  <1> QED BY <1>1, <1>2

LEMMA StartOnTrack ==
    ASSUME NEW t, t.q.op \in Operations, t.todo = Stages(t.q)
    PROVE  OnTrack(t) /\ \A s : ~Passed(t, s)
  <1>1. Ordered(t.q, Stages(t.q))
    BY StageOrder
  <1>2. Len(Stages(t.q)) \in Nat /\ Position(t) = 0
    BY <1>1 DEF Ordered, Position
  <1> QED BY <1>1, <1>2 DEF Ordered, OnTrack, Passed

\* All promises survive the commits of others.
LEMMA PromiseStands ==
    ASSUME NEW d, NEW e, NEW L, NEW t, Stands(d, e, L, t), OnTrack(t), Promise(d, t)
    PROVE  Promise(e, t)
  <1>1. t.q.op \in Operations
    BY RequestTyped DEF Stands
  <1>2. Passed(t, "room") => RoomPromise(e, t)
    BY RoomPromiseStands DEF Promise
  <1>3. Passed(t, "cap") => CapPromise(e, t) /\ DOMAIN e.msg = DOMAIN d.msg
    BY SameCapacity DEF Promise, CapPromise
  <1>4. Passed(t, "parent") \/ Passed(t, "msg") => RowPromise(e, t)
    BY <1>1, PassedOrder, RowPromiseStands DEF Promise
  <1>5. Passed(t, "rows") => RowsPromise(e, t)
    BY <1>1, <1>3, PassedOrder DEF Promise, RowsPromise
  <1> QED BY <1>2, <1>3, <1>4, <1>5 DEF Promise

-----------------------------------------------------------------------------
(* Reading, and the operators of ChatStore.                                *)

\* A finite set of numbers has a greatest element.
LEMMA Greatest ==
    ASSUME NEW n \in Nat, NEW S \in SUBSET (1..n), S # {}
    PROVE  \E i \in S : \A j \in S : j <= i
  <1>1. IsFiniteSet(S)
    <2>1. IsFiniteSet(1..n)
      BY FS_Interval
    <2> QED BY <2>1, FS_Subset
  <1>i. \A j \in S : j \in Int
    OBVIOUS
  <1> DEFINE Above(i) == {j \in S : j > i}
             T == {Above(i) : i \in S}
  <1>2. IsWellFoundedOn(StrictSubsetOrdering(S), FiniteSubsetsOf(S))
    BY FS_StrictSubsetOrderingWellFounded
  <1>3. IsWellFoundedOn(StrictSubsetOrdering(S), SUBSET S)
    BY <1>1, <1>2, FS_FiniteSubsetsOfFinite
  <1>4. T \subseteq SUBSET S /\ T # {}
    OBVIOUS
  <1>5. PICK x \in T : \A y \in T : ~(<<y, x>> \in StrictSubsetOrdering(S))
    <2> HIDE DEF T
    <2> QED BY <1>3, <1>4, WFMin
  <1>6. PICK i \in S : x = Above(i)
    BY <1>5
  <1>7. \A j \in S : j <= i
    <2> SUFFICES ASSUME NEW j \in S, j > i PROVE FALSE
      OBVIOUS
    <2>1. Above(j) \in T /\ Above(j) \subseteq S /\ x \subseteq S
      BY <1>6
    <2>2. Above(j) \subseteq x /\ j \in x /\ j \notin Above(j)
      <3>1. \A k \in S : k > j => k > i
        BY <1>i
      <3>2. ~(j > j)
        BY <1>i
      <3> QED BY <1>6, <3>1, <3>2, Zenon
    <2>3. <<Above(j), x>> \in StrictSubsetOrdering(S)
      BY <2>1, <2>2 DEF StrictSubsetOrdering
    <2> QED BY <1>5, <2>1, <2>3
  <1> QED BY <1>7

\* mark_read moves the cursor to a position ChatStore allows.
LEMMA ReadPositionFound ==
    ASSUME NEW d, NEW q \in Request, IsDatabase(d)
    PROVE  /\ ReadPosition(d, q) \in Positions
           /\ q.op = "read" /\ (q.msg # 0 => Target(d, q)) => ReadPosition(d, q) \in Readable(d, q)
  <1> DEFINE room == InRoom(d, q.room)
  <1>0. MaxIds \in Nat /\ d.last \in 0..MaxIds /\ DOMAIN d.msg \subseteq 1..d.last /\ q.msg \in 0..MaxIds
    BY ConstantsAssumption DEF IsDatabase, Request
  <1>1. CASE q.msg # 0
    <2>1. ReadPosition(d, q) = 2 * q.msg
      BY <1>1 DEF ReadPosition
    <2>2. Target(d, q) => q.msg \in 1..d.last /\ q.msg \in DOMAIN d.msg /\ d.msg[q.msg].room = q.room
      BY <1>0 DEF Target, InRoom
    <2>3. 2 * q.msg \in Positions
      BY <1>0 DEF Positions
    <2>4. Target(d, q) => 2 * q.msg \in Readable(d, q)
      BY <2>2, <1>1 DEF Readable
    <2> QED BY <2>1, <2>3, <2>4, <1>1
  <1>2. CASE q.msg = 0 /\ room = {}
    <2>1. ReadPosition(d, q) = 2 * d.last + 1
      BY <1>2 DEF ReadPosition
    <2>2. 2 * d.last + 1 \in Positions
      BY <1>0 DEF Positions
    <2>3. 2 * d.last + 1 \in Readable(d, q)
      BY <1>0, <1>2 DEF Readable
    <2> QED BY <2>1, <2>2, <2>3
  <1>3. CASE q.msg = 0 /\ room # {}
    <2> DEFINE m == CHOOSE i \in room : \A j \in room : j <= i
    <2>1. ReadPosition(d, q) = 2 * m
      BY <1>3 DEF ReadPosition
    <2>2. room \in SUBSET (1..d.last) /\ \A i \in room : i \in DOMAIN d.msg /\ d.msg[i].room = q.room
      BY <1>0 DEF InRoom
    <2>3. \E i \in room : \A j \in room : j <= i
      <3>1. d.last \in Nat /\ room \in SUBSET (1..d.last) /\ room # {}
        BY <1>0, <1>3, <2>2
      <3> HIDE DEF room
      <3> QED BY ONLY <3>1, Greatest
    <2>4. m \in room
      BY <2>3
    <2> HIDE DEF m, room
    <2>5. m \in 1..d.last /\ d.msg[m].room = q.room
      BY <2>2, <2>4
    <2>6. 2 * m \in Positions
      BY <2>5, <1>0 DEF Positions
    <2>7. 2 * m \in Readable(d, q)
      BY <2>5, <1>3 DEF Readable
    <2> QED BY <2>1, <2>6, <2>7
  <1> QED BY <1>1, <1>2, <1>3

\* ChatStore has its own copies of the operators of ChatRows; they agree.
LEMMA SameEffect ==
    ASSUME NEW d, NEW q, NEW V, NEW pos
    PROVE  Store!Effect(d, q, V, pos) = Effect(d, q, V, pos)
  BY Zenon DEF Effect, Store!Effect, Without, Store!Without, NewRow, Store!NewRow,
               Rewritten, Store!Rewritten, Patched, Store!Patched, Tombstone, Store!Tombstone,
               Put, Store!Put

LEMMA SameCardinality ==
    ASSUME NEW S
    PROVE  Store!Cardinality(S) = Cardinality(S)
  BY Zenon DEF Store!Cardinality, Cardinality, Store!IsFiniteSet, IsFiniteSet

LEMMA SameVictims ==
    ASSUME NEW d, NEW q
    PROVE  Store!Victims(d, q) = Victims(d, q)
  <1>1. \A r : Store!InRoom(d, r) = InRoom(d, r)
    BY Zenon DEF InRoom, Store!InRoom
  <1>2. \A S, n : Store!Beyond(S, n) = Beyond(S, n)
    BY SameCardinality DEF Beyond, Store!Beyond
  <1>3. Store!Trimmed(d, q) = Trimmed(d, q)
    BY <1>1, <1>2 DEF Trimmed, Store!Trimmed
  <1> QED BY <1>1, <1>3, Zenon DEF Victims, Store!Victims

LEMMA SameReadPosition ==
    ASSUME NEW d, NEW q
    PROVE  Store!ReadPosition(d, q) = ReadPosition(d, q)
  BY Zenon DEF ReadPosition, Store!ReadPosition, InRoom, Store!InRoom

LEMMA SameChecks ==
    ASSUME NEW d, NEW q
    PROVE  /\ Store!RoomAllows(d, q) <=> RoomAllows(d, q)
           /\ Store!RowAllows(d, q) <=> RowAllows(d, q)
           /\ Store!Changes(d, q) <=> Changes(d, q)
  <1>0. \A S : Store!Cardinality(S) = Cardinality(S)
    BY SameCardinality
  <1>1. Store!RoomAllows(d, q) = RoomAllows(d, q)
    BY <1>0, Zenon DEF Store!RoomAllows, RoomAllows, Store!Writable, Writable
  <1>2. Store!RowAllows(d, q) = RowAllows(d, q)
    BY <1>0, Zenon DEF Store!RowAllows, RowAllows, Store!ParentAllows, ParentAllows, Store!Live, Live,
                 Store!Target, Target, Store!InRoom, InRoom, Store!Owned, Owned,
                 Store!Reacted, Reacted, Store!UsedEmojis, UsedEmojis, Store!HasCursor, HasCursor
  <1>3. Store!Changes(d, q) = Changes(d, q)
    BY SameReadPosition, Zenon DEF Store!Changes, Changes, Store!Replayed, Replayed,
                 Store!InRoom, InRoom, Store!Reacted, Reacted, Store!Patched, Patched
  <1> QED BY <1>1, <1>2, <1>3

LEMMA SameHasCursor ==
    ASSUME NEW d, NEW r
    PROVE  Store!HasCursor(d, r) = HasCursor(d, r)
  BY Zenon DEF Store!HasCursor, HasCursor

-----------------------------------------------------------------------------
(* Commits are steps of ChatStore.                                         *)

\* An operation depends on V and pos only where it removes or reads.
LEMMA EffectReads ==
    ASSUME NEW d, NEW q \in Request, NEW V, NEW W, NEW x, NEW y, IsDatabase(d)
    PROVE  /\ q.op \in Rewrites \cup {"createRoom", "setRoomState", "moderate", "clear"} =>
                 Effect(d, q, V, x) = Effect(d, q, W, y)
           /\ q.op \in {"create", "retain", "deleteRoom"} => Effect(d, q, V, x) = Effect(d, q, V, y)
           /\ q.op = "read" => Effect(d, q, V, x) = Effect(d, q, W, x)
  <1>1. Writes(Effect(d, q, V, x), d, q, V, x) /\ Writes(Effect(d, q, W, y), d, q, W, y)
        /\ Writes(Effect(d, q, V, y), d, q, V, y) /\ Writes(Effect(d, q, W, x), d, q, W, x)
    BY Effects
  <1> QED BY <1>1, Zenon DEF Writes, Rewrites

\* An operation whose checks hold when it commits is a step of ChatStore.
LEMMA StoreStep ==
    ASSUME NEW q \in Requests, IsDatabase(committed), NEW V, NEW pos,
           committed' = Effect(committed, q, V, pos),
           q.op = "create" => committed.last < MaxIds,
           q.op \in {"create", "retain", "deleteRoom"} => V = Victims(committed, q),
           q.op # "read" =>
              RoomAllows(committed, q) /\ RowAllows(committed, q) /\ Changes(committed, q),
           q.op = "read" =>
              /\ q.room \in committed.rooms
              /\ \/ committed.cursor[q.room][q.by] # 0
                 \/ Cardinality(HasCursor(committed, q.room)) < MaxCursors
              /\ pos \in Readable(committed, q)
              /\ pos > committed.cursor[q.room][q.by]
    PROVE  Store!Next
  <1>0. q \in Request /\ q.op \in Operations
    BY RequestTyped
  <1>1. q.op # "read" => Store!Accepts(q)
    BY SameChecks DEF Store!Accepts
  <1> DEFINE d == committed
             E(U, x) == Effect(d, q, U, x)
  <1>2. \A U, x : Store!Effect(d, q, U, x) = E(U, x)
    BY SameEffect
  <1>3. Store!Victims(d, q) = Victims(d, q)
    BY SameVictims
  <1>4. CASE q.op = "create"
    <2>1. E(V, pos) = E(V, 0)
      BY <1>0, <1>4, EffectReads
    <2>2. Store!CreateMessage(q)
      BY <2>1, <1>1, <1>2, <1>3, <1>4 DEF Store!CreateMessage
    <2> QED BY <2>2 DEF Store!Next
  <1>5. CASE q.op \in Rewrites
    <2>1. E(V, pos) = E({}, 0)
      BY <1>0, <1>5, EffectReads
    <2>2. Store!RewriteMessage(q)
      BY <2>1, <1>1, <1>2, <1>5 DEF Store!RewriteMessage, Rewrites
    <2> QED BY <2>2 DEF Store!Next
  <1>6. CASE q.op \in {"createRoom", "setRoomState", "deleteRoom", "moderate"}
    <2>1. E(V, pos) = E(Victims(d, q), 0)
      BY <1>0, <1>6, EffectReads
    <2>2. Store!Administer(q)
      BY <2>1, <1>1, <1>2, <1>3, <1>6 DEF Store!Administer
    <2> QED BY <2>2 DEF Store!Next
  <1>7. CASE q.op = "retain"
    <2>1. E(V, pos) = E(V, 0)
      BY <1>0, <1>7, EffectReads
    <2>2. Store!RunRetention(q)
      BY <2>1, <1>2, <1>3, <1>7 DEF Store!RunRetention
    <2> QED BY <2>2 DEF Store!Next
  <1>8. CASE q.op = "read"
    <2>1. E(V, pos) = E({}, pos)
      BY <1>0, <1>8, EffectReads
    <2>2. Store!Found(q) = Readable(d, q)
      BY Zenon DEF Store!Found, Readable
    <2>3. Store!Cardinality(Store!HasCursor(d, q.room)) = Cardinality(HasCursor(d, q.room))
      BY SameCardinality, SameHasCursor
    <2>4. Store!MarkRead(q)
      BY <2>1, <2>2, <2>3, <1>2, <1>8 DEF Store!MarkRead
    <2> QED BY <2>4 DEF Store!Next
  <1>9. CASE q.op = "clear"
    <2>1. E(V, pos) = E({}, 0)
      BY <1>0, <1>9, EffectReads
    <2>2. Store!ClearReadState(q)
      BY <2>1, <1>1, <1>2, <1>9 DEF Store!ClearReadState
    <2> QED BY <2>2 DEF Store!Next
  <1> QED BY <1>0, <1>4, <1>5, <1>6, <1>7, <1>8, <1>9 DEF Operations, Rewrites

\* SQLite: the checks and the writes are one step of one thread.
LEMMA LocalStep ==
    ASSUME NEW q \in Requests, IsDatabase(committed),
           q.op = "create" => committed.last < MaxIds,
           RoomAllows(committed, q), RowAllows(committed, q), Changes(committed, q),
           committed' = Effect(committed, q, Victims(committed, q), ReadPosition(committed, q))
    PROVE  Store!Next
  <1>0. q \in Request /\ q.op \in Operations
    BY RequestTyped
  <1>1. q.op = "read" =>
              /\ q.room \in committed.rooms
              /\ q.msg # 0 => Target(committed, q)
              /\ \/ committed.cursor[q.room][q.by] # 0
                 \/ Cardinality(HasCursor(committed, q.room)) < MaxCursors
              /\ ReadPosition(committed, q) > committed.cursor[q.room][q.by]
    BY <1>0, RoomAllowsEach, RowAllowsEach, ChangesEach
  <1>2. q.op = "read" => ReadPosition(committed, q) \in Readable(committed, q)
    BY <1>0, <1>1, ReadPositionFound
  <1> QED BY <1>1, <1>2, StoreStep

\* PostgreSQL: the promises of the locks are the checks ChatStore makes, and
\* the locks cover what is written.
LEMMA CommitStep ==
    ASSUME NEW t, t.q \in Requests, t.todo = <<>>, IsDatabase(committed), Promise(committed, t),
           t.q.op = "create" => committed.last < MaxIds,
           committed' = Effect(committed, t.q, t.victims, t.pos)
    PROVE  Store!Next /\ Covers(t.held, committed, t.q, t.victims)
  <1> DEFINE q == t.q
  <1>0. q \in Request /\ q.op \in Operations
    BY RequestTyped
  <1>1. /\ q.op # "retain" => RoomPromise(committed, t)
        /\ q.op \in {"create", "update", "delete", "retain", "deleteRoom"} => CapPromise(committed, t)
        /\ q.op \in Rewrites \cup {"create"} => RowPromise(committed, t)
        /\ q.op \in {"create", "retain", "deleteRoom"} => RowsPromise(committed, t)
        /\ q.op = "createRoom" => Lock("roomcap", None) \in t.held
    BY <1>0, AllStages DEF Promise, Rewrites
  <1>2. q.op # "read" => RoomAllows(committed, q)
    <2>1. q.op = "retain" => RoomAllows(committed, q)
      BY <1>0, RoomAllowsEach
    <2> QED BY <2>1, <1>1 DEF RoomPromise
  <1>3. q.op # "read" => RowAllows(committed, q)
    <2>1. q.op \in {"createRoom", "setRoomState", "deleteRoom", "moderate", "clear", "retain"} =>
                RowAllows(committed, q)
      BY <1>0, RowAllowsEach
    <2>2. q.op \in Rewrites \cup {"create"} => RowAllows(committed, q)
      BY <1>1 DEF RowPromise
    <2> QED BY <2>1, <2>2, <1>0 DEF Operations, Rewrites
  <1>4. q.op # "read" => Changes(committed, q)
    <2>1. q.op \in {"createRoom", "deleteRoom", "moderate", "retain"} => Changes(committed, q)
      BY <1>0, ChangesEach
    <2>2. q.op = "create" => Changes(committed, q)
      BY <1>0, <1>1, ChangesEach DEF RoomPromise
    <2>3. q.op \in {"setRoomState", "clear"} => Changes(committed, q)
      BY <1>1 DEF RoomPromise
    <2>4. q.op \in Rewrites => Changes(committed, q)
      BY <1>1 DEF RowPromise, Rewrites
    <2> QED BY <2>1, <2>2, <2>3, <2>4, <1>0 DEF Operations, Rewrites
  <1>5. q.op = "read" =>
              /\ q.room \in committed.rooms
              /\ \/ committed.cursor[q.room][q.by] # 0
                 \/ Cardinality(HasCursor(committed, q.room)) < MaxCursors
              /\ t.pos \in Readable(committed, q)
              /\ t.pos > committed.cursor[q.room][q.by]
    BY <1>0, <1>1, RoomAllowsEach DEF RoomPromise
  <1>6. Store!Next
    BY <1>1, <1>2, <1>3, <1>4, <1>5, StoreStep DEF CapPromise
  <1>7. Covers(t.held, committed, q, t.victims)
    <2>1. q.op \in Rewrites => Lock("msg", q.msg) \in t.held
      <3>1. q.op \in Rewrites => Target(committed, q)
        BY <1>0, <1>3, RowAllowsEach DEF Rewrites, Live
      <3>2. Target(committed, q) => q.msg # 0
        BY DEF Target, InRoom, IsDatabase
      <3> QED BY <3>1, <3>2, <1>1 DEF RowPromise
    <2> QED BY <2>1, <1>1 DEF Covers, RoomPromise, CapPromise, RowsPromise, Rewrites
  <1> QED BY <1>6, <1>7

-----------------------------------------------------------------------------
(* Replacing one transaction.                                              *)

\* The transaction of p is replaced by t.
LEMMA Replaced ==
    ASSUME Transactions, NEW p \in Procs, NEW t, tx' = [tx EXCEPT ![p] = t], backend' = backend,
           t # None =>
              /\ IsTransaction(t)
              /\ backend # "postgres" => t.todo \in LocalSteps
              /\ backend = "postgres" => OnTrack(t) /\ Promise(committed', t)
              /\ \A o \in Active \ {p} : t.held \cap tx[o].held = {},
           backend = "postgres" => \A o \in Active \ {p} : Promise(committed', tx[o])
    PROVE  Transactions'
  <1>1. tx' = [o \in Procs |-> tx'[o]] /\ tx'[p] = t /\ \A o \in Procs \ {p} : tx'[o] = tx[o]
    BY DEF Transactions
  <1>2. \A o \in Active' : o \in Procs /\ tx'[o] # None /\ (o # p => o \in Active /\ tx'[o] = tx[o])
    BY <1>1 DEF Active
  <1>3. \A o \in Active' : IsTransaction(tx'[o])
    BY <1>1, <1>2 DEF Transactions
  <1>4. backend' # "postgres" => \A o \in Active' : tx'[o].todo \in LocalSteps
    BY <1>1, <1>2 DEF Transactions
  <1>5. backend' = "postgres" => \A o \in Active' : OnTrack(tx'[o]) /\ Promise(committed', tx'[o])
    BY <1>1, <1>2 DEF Transactions
  <1>6. \A o, r \in Active' : o # r => tx'[o].held \cap tx'[r].held = {}
    <2> TAKE o, r \in Active'
    <2> HAVE o # r
    <2>1. CASE o # p /\ r # p
      BY <2>1, <1>2 DEF Transactions
    <2>2. CASE o = p
      BY <2>2, <1>1, <1>2
    <2>3. CASE r = p
      BY <2>3, <1>1, <1>2
    <2> QED BY <2>1, <2>2, <2>3
  <1> QED BY <1>1, <1>3, <1>4, <1>5, <1>6 DEF Transactions

\* The promises of the others survive a commit.
LEMMA OthersStand ==
    ASSUME IsDatabase(committed), IsDatabase(committed'), Transactions, backend = "postgres",
           NEW P, NEW L, Moves(committed, committed', L),
           \A o \in Active \ P : tx[o].held \cap L = {}
    PROVE  \A o \in Active \ P : Promise(committed', tx[o])
  <1> TAKE o \in Active \ P
  <1>1. OnTrack(tx[o]) /\ Promise(committed, tx[o]) /\ IsTransaction(tx[o])
    BY DEF Transactions
  <1>2. Stands(committed, committed', L, tx[o])
    BY <1>1 DEF Stands, IsTransaction
  <1> QED BY <1>1, <1>2, PromiseStands

LEMMA PendingCount ==
    /\ IsFiniteSet(Pending)
    /\ Cardinality(Pending) \in Nat
    /\ \A p \in Pending : Cardinality(Pending) >= 1
  <1>1. IsFiniteSet(Pending)
    BY ProcsAssumption, FS_Subset DEF Pending, Active
  <1>2. Cardinality(Pending) \in Nat
    BY <1>1, FS_CardinalityType
  <1>3. Pending # {} => Cardinality(Pending) # 0
    BY <1>1, FS_EmptySet
  <1> QED BY <1>1, <1>2, <1>3

LEMMA FewerPending ==
    ASSUME NEW p, Pending' \subseteq Pending
    PROVE  /\ IsFiniteSet(Pending') /\ Cardinality(Pending') \in Nat
           /\ Cardinality(Pending') <= Cardinality(Pending)
           /\ p \in Pending /\ p \notin Pending' => Cardinality(Pending') <= Cardinality(Pending) - 1
  <1>1. IsFiniteSet(Pending) /\ Cardinality(Pending) \in Nat
    BY PendingCount
  <1>2. IsFiniteSet(Pending') /\ Cardinality(Pending') <= Cardinality(Pending)
    BY <1>1, FS_Subset
  <1>3. Cardinality(Pending') \in Nat
    BY <1>2, FS_CardinalityType
  <1>4. ASSUME p \in Pending, p \notin Pending'
        PROVE  Cardinality(Pending') <= Cardinality(Pending) - 1
    <2>1. IsFiniteSet(Pending \ {p}) /\ Cardinality(Pending \ {p}) = Cardinality(Pending) - 1
      BY <1>1, <1>4, FS_RemoveElement
    <2>2. Pending' \subseteq Pending \ {p}
      BY <1>4
    <2> QED BY <2>1, <2>2, FS_Subset
  <1> QED BY <1>2, <1>3, <1>4

\* No PostgreSQL transaction is at a step of SQLite.
LEMMA OnTrackApart ==
    ASSUME NEW t, t.q.op \in Operations, OnTrack(t)
    PROVE  t.todo \notin LocalSteps
  <1>1. t.todo \in Seq(StageNames)
    BY DEF OnTrack
  <1>2. ASSUME NEW x, x \notin StageNames PROVE t.todo # <<x>>
    <2> SUFFICES ASSUME t.todo = <<x>> PROVE FALSE
      OBVIOUS
    <2>1. Len(t.todo) = 1 /\ t.todo[1] = x
      OBVIOUS
    <2>2. t.todo[1] \in StageNames
      BY <1>1, <2>1
    <2> QED BY <2>1, <2>2, <1>2
  <1>3. "local" \notin StageNames /\ "resume" \notin StageNames /\ "tell" \notin StageNames
    BY DEF StageNames
  <1> QED BY <1>2, <1>3, Zenon DEF LocalSteps

\* A request begins: nothing is promised yet.
LEMMA BeginKeeps ==
    ASSUME StoreInv, NEW p \in Procs, NEW q \in Requests, Begin(p, q)
    PROVE  StoreInv'
  <1> DEFINE t == [q |-> q, n |-> served + 1, held |-> {}, victims |-> {},
                   pos |-> 0, scrubbed |-> {}, id |-> 0, image |-> None,
                   todo |-> IF backend = "postgres" THEN Stages(q) ELSE <<"local">>]
  <1>1. /\ tx[p] = None /\ tx' = [tx EXCEPT ![p] = t]
        /\ committed' = committed /\ backend' = backend
        /\ q.op = "create" => committed.last + Cardinality(Creating) < MaxIds
    BY DEF Begin
  <1>2. q.op \in Operations /\ MaxIds \in Nat
    BY RequestTyped
  <1>3. /\ t.q = q /\ t.held = {} /\ t.pos = 0
        /\ t.todo = IF backend = "postgres" THEN Stages(q) ELSE <<"local">>
        /\ IsTransaction(t)
    <2>1. 0 \in Positions
      BY <1>2 DEF Positions
    <2> QED BY <2>1 DEF IsTransaction
  <1> HIDE DEF t
  <1>4. backend = "postgres" => OnTrack(t) /\ Promise(committed', t)
    <2> HAVE backend = "postgres"
    <2>1. OnTrack(t) /\ \A s : ~Passed(t, s)
      BY <1>2, <1>3, StartOnTrack
    <2> QED BY <2>1 DEF Promise
  <1>5. Transactions'
    <2>1. backend # "postgres" => t.todo \in LocalSteps
      BY <1>3 DEF LocalSteps
    <2>2. Transactions
      BY DEF StoreInv
    <2>3. backend = "postgres" => \A o \in Active \ {p} : Promise(committed', tx[o])
      BY <1>1 DEF StoreInv, Transactions
    <2>4. \A o \in Active \ {p} : t.held \cap tx[o].held = {}
      BY <1>3
    <2> QED BY <1>1, <1>3, <1>4, <2>1, <2>2, <2>3, <2>4, Replaced
  <1>6. tx'[p] = t /\ \A o \in Procs \ {p} : tx'[o] = tx[o]
    BY <1>1 DEF StoreInv, Transactions
  <1>7. committed'.last + Cardinality(Pending') <= MaxIds
    <2>0. IsFiniteSet(Pending) /\ Cardinality(Pending) \in Nat /\ committed.last \in Nat
          /\ committed.last + Cardinality(Pending) <= MaxIds
      BY PendingCount DEF StoreInv, IsDatabase
    <2>1. CASE q.op # "create"
      <3>1. Pending' \subseteq Pending
        BY <2>1, <1>3, <1>6 DEF Pending, Active
      <3> QED BY <3>1, <2>0, <1>1, <1>2, FewerPending
    <2>2. CASE q.op = "create"
      <3>1. Pending' \subseteq Pending \cup {p}
        BY <1>6 DEF Pending, Active
      <3>2. Pending \subseteq Creating /\ IsFiniteSet(Creating)
        BY ProcsAssumption, FS_Subset DEF Pending, Creating, Active
      <3>3. Cardinality(Pending) <= Cardinality(Creating) /\ Cardinality(Creating) \in Nat
        BY <3>2, FS_Subset, FS_CardinalityType
      <3>4. IsFiniteSet(Pending \cup {p}) /\ Cardinality(Pending \cup {p}) <= Cardinality(Pending) + 1
        <4>1. /\ IsFiniteSet(Pending \cup {p})
              /\ Cardinality(Pending \cup {p}) = IF p \in Pending THEN Cardinality(Pending)
                                                                  ELSE Cardinality(Pending) + 1
          BY <2>0, FS_AddElement
        <4> QED BY <4>1, <2>0
      <3>5. IsFiniteSet(Pending') /\ Cardinality(Pending') <= Cardinality(Pending \cup {p})
        BY <3>1, <3>4, FS_Subset
      <3>6. Cardinality(Pending') \in Nat /\ Cardinality(Pending \cup {p}) \in Nat
        BY <3>4, <3>5, FS_CardinalityType
      <3>7. committed.last + Cardinality(Creating) < MaxIds
        BY <1>1, <2>2
      <3> QED BY <3>3, <3>4, <3>5, <3>6, <3>7, <2>0, <1>1, <1>2
    <2> QED BY <2>1, <2>2
  <1> QED BY <1>1, <1>5, <1>7 DEF StoreInv

\* A transaction that ends without a commit takes its promises with it.
LEMMA FinishKeeps ==
    ASSUME StoreInv, NEW p \in Procs, Finish(p), committed' = committed, backend' = backend
    PROVE  StoreInv'
  <1>1. tx' = [tx EXCEPT ![p] = None] /\ Transactions
    BY DEF Finish, StoreInv
  <1>2. backend = "postgres" => \A o \in Active \ {p} : Promise(committed', tx[o])
    BY DEF StoreInv, Transactions
  <1>3. Transactions'
    BY <1>1, <1>2, Replaced
  <1>4. tx'[p] = None /\ \A o \in Procs \ {p} : tx'[o] = tx[o]
    BY <1>1 DEF Transactions
  <1>5. Pending' \subseteq Pending
    BY <1>4 DEF Pending, Active
  <1>6. Cardinality(Pending') <= Cardinality(Pending) /\ Cardinality(Pending') \in Nat
        /\ Cardinality(Pending) \in Nat
    BY <1>5, FewerPending, PendingCount
  <1>7. committed.last \in Nat /\ MaxIds \in Nat
    BY ConstantsAssumption DEF StoreInv, IsDatabase
  <1> QED BY <1>3, <1>6, <1>7 DEF StoreInv

-----------------------------------------------------------------------------
(* A statement makes good the promise of its lock.                         *)

\* More locks break no promise.
LEMMA Carried ==
    ASSUME NEW d, NEW t, NEW u, u.q = t.q, t.held \subseteq u.held
    PROVE  /\ u.pos = t.pos /\ RoomPromise(d, t) => RoomPromise(d, u)
           /\ u.victims = t.victims /\ CapPromise(d, t) => CapPromise(d, u)
           /\ RowPromise(d, t) => RowPromise(d, u)
           /\ u.victims = t.victims /\ RowsPromise(d, t) => RowsPromise(d, u)
  <1>1. u.pos = t.pos /\ RoomPromise(d, t) => RoomPromise(d, u)
    BY DEF RoomPromise
  <1>2. u.victims = t.victims /\ CapPromise(d, t) => CapPromise(d, u)
    BY DEF CapPromise
  <1>3. RowPromise(d, t) => RowPromise(d, u)
    BY DEF RowPromise
  <1>4. u.victims = t.victims /\ RowsPromise(d, t) => RowsPromise(d, u)
    BY DEF RowsPromise
  <1> QED BY <1>1, <1>2, <1>3, <1>4

\* What is checked under the room lock is what the room lock promises.
LEMMA RoomFresh ==
    ASSUME NEW t, t.q \in Requests, IsDatabase(committed), t.q.op # "retain",
           ~RoomStops(t.q), Wanted(t, "room") \subseteq t.held,
           t.q.op = "createRoom" => Lock("roomcap", None) \in t.held,
           t.pos = ReadPosition(committed, t.q)
    PROVE  RoomPromise(committed, t)
  <1> DEFINE q == t.q
  <1>0. q \in Request /\ q.op \in Operations
    BY RequestTyped
  <1>1. /\ RoomAllows(committed, q)
        /\ q.op = "create" => ~Replayed(committed, q)
        /\ q.op \in {"read", "clear", "setRoomState"} => RowAllows(committed, q) /\ Changes(committed, q)
    BY DEF RoomStops
  <1>2. q.op = "createRoom" \/ q.room \in committed.rooms
    BY <1>0, <1>1, RoomAllowsEach DEF Operations, Rewrites, Writable
  <1>3. Lock("room", q.room) \in t.held
    BY <1>2, WantedEach
  <1>4. q.op = "read" =>
          /\ \/ committed.cursor[q.room][q.by] # 0
             \/ Cardinality(HasCursor(committed, q.room)) < MaxCursors
          /\ t.pos \in Readable(committed, q)
          /\ t.pos > committed.cursor[q.room][q.by]
    <2> HAVE q.op = "read"
    <2>1. RowAllows(committed, q) /\ Changes(committed, q)
      BY <1>1
    <2>2. /\ q.msg # 0 => Target(committed, q)
          /\ \/ committed.cursor[q.room][q.by] # 0
             \/ Cardinality(HasCursor(committed, q.room)) < MaxCursors
      BY <2>1, <1>0, RowAllowsEach
    <2>3. ReadPosition(committed, q) > committed.cursor[q.room][q.by]
      BY <2>1, <1>0, ChangesEach
    <2>4. ReadPosition(committed, q) \in Readable(committed, q)
      BY <2>2, <1>0, ReadPositionFound
    <2> QED BY <2>2, <2>3, <2>4
  <1> QED BY <1>1, <1>3, <1>4 DEF RoomPromise

\* What is checked under a message lock is what it promises.
LEMMA RowFresh ==
    ASSUME NEW t, t.q \in Requests, IsDatabase(committed),
           t.q.op \in Rewrites \cup {"create"},
           RowAllows(committed, t.q), t.q.op # "create" => Changes(committed, t.q),
           MessageLock(t.q) \subseteq t.held
    PROVE  RowPromise(committed, t)
  <1> DEFINE q == t.q
  <1>0. q \in Request /\ q.op \in Operations
    BY RequestTyped
  <1>1. q.msg # 0 => Target(committed, q)
    BY <1>0, RowAllowsEach DEF Rewrites, ParentAllows, Live
  <1>2. q.msg # 0 => Lock("msg", q.msg) \in t.held
    BY <1>1 DEF Target, InRoom, MessageLock
  <1> QED BY <1>2 DEF RowPromise

\* A statement that does not stop the transaction adds its promise and keeps
\* those made before it.
LEMMA StatementPromise ==
    ASSUME IsDatabase(committed), NEW t, t.q \in Requests, OnTrack(t), t.todo # <<>>,
           Promise(committed, t), ~Stops(Head(t.todo), t.q),
           NEW V, V = IF Head(t.todo) \in {"cap", "parent"} THEN Victims(committed, t.q) ELSE t.victims,
           NEW u, u.q = t.q, t.held \subseteq u.held, Wanted(t, Head(t.todo)) \subseteq u.held,
           u.victims = V, u.todo = Rest(t, V),
           u.pos = IF Head(t.todo) = "room" THEN ReadPosition(committed, t.q) ELSE t.pos
    PROVE  OnTrack(u) /\ Promise(committed, u)
  <1> DEFINE s == Head(t.todo)
             q == t.q
             d == committed
  <1>0. q \in Request /\ q.op \in Operations
    BY RequestTyped
  <1>1. /\ OnTrack(u)
        /\ \A x : Passed(u, x) =>
                 \/ Passed(t, x) \/ x = s
                 \/ x \in {"rows", "scrub", "audit"} /\ V = {} /\ q.op = "create"
    BY <1>0, RestOnTrack
  <1>2. /\ s = "rows" => Passed(t, "cap")
        /\ s = "parent" => q.op = "create"
        /\ s = "msg" => q.op \in Rewrites
        /\ s = "room" => q.op # "retain" /\ (q.op = "createRoom" => Passed(t, "roomcap"))
    BY <1>0, HeadOrder
  <1>3. Passed(t, "rows") => Passed(t, "cap")
    BY <1>0, PassedOrder
  <1>4. \A x : Wanted(u, x) = Wanted(t, x) \/ x = "rows"
    BY WantedEach DEF Wanted
  <1> HIDE DEF s, q
  <1>5. Passed(u, "roomcap") => Lock("roomcap", None) \in u.held
    <2>1. s = "roomcap" => Lock("roomcap", None) \in u.held
      BY WantedEach DEF s
    <2> QED BY <2>1, <1>1 DEF Promise
  <1>6. Passed(u, "room") => RoomPromise(d, u)
    <2>1. CASE s = "room"
      <3>1. ~RoomStops(q)
        BY <2>1, StopsEach DEF s, q
      <3>2. Wanted(u, "room") \subseteq u.held
        BY <2>1, WantedEach DEF s, q
      <3>3. q.op = "createRoom" => Lock("roomcap", None) \in u.held
        BY <2>1, <1>2 DEF Promise
      <3>4. u.pos = ReadPosition(d, q)
        BY <2>1 DEF s, q
      <3>5. u.q = q /\ q \in Requests
        BY DEF q
      <3> QED BY <2>1, <3>1, <3>2, <3>3, <3>4, <3>5, <1>2, RoomFresh
    <2>2. CASE s # "room"
      <3>1. Passed(u, "room") => Passed(t, "room")
        BY <2>2, <1>1
      <3>2. u.pos = t.pos
        BY <2>2 DEF s
      <3> QED BY <3>1, <3>2, Carried DEF Promise
    <2> QED BY <2>1, <2>2
  <1>7. Passed(u, "cap") => CapPromise(d, u)
    <2>1. CASE s = "cap"
      <3>1. Lock("cap", None) \in u.held
        BY <2>1, WantedEach DEF s
      <3> QED BY <2>1, <3>1 DEF CapPromise, s
    <2>2. CASE s # "cap"
      <3>1. Passed(u, "cap") => CapPromise(d, t)
        BY <2>2, <1>1 DEF Promise
      <3>2. CapPromise(d, t) => V = t.victims
        BY DEF CapPromise
      <3> QED BY <3>1, <3>2, Carried
    <2> QED BY <2>1, <2>2
  <1>8. Passed(u, "parent") \/ Passed(u, "msg") => RowPromise(d, u)
    <2>1. CASE s = "parent"
      <3>1. RowAllows(d, q)
        BY <2>1, StopsEach DEF s, q
      <3>2. MessageLock(q) \subseteq u.held
        BY <2>1, WantedEach DEF s, q
      <3>3. u.q = q /\ q \in Requests /\ q.op = "create"
        BY <1>2, <2>1 DEF q
      <3> QED BY <3>1, <3>2, <3>3, RowFresh
    <2>2. CASE s = "msg"
      <3>1. RowAllows(d, q) /\ Changes(d, q)
        BY <2>2, StopsEach DEF s, q
      <3>2. MessageLock(q) \subseteq u.held
        BY <2>2, WantedEach DEF s, q
      <3>3. u.q = q /\ q \in Requests /\ q.op \in Rewrites
        BY <1>2, <2>2 DEF q
      <3> QED BY <3>1, <3>2, <3>3, RowFresh
    <2>3. CASE s \notin {"parent", "msg"}
      <3>1. Passed(u, "parent") \/ Passed(u, "msg") => RowPromise(d, t)
        BY <2>3, <1>1 DEF Promise
      <3> QED BY <3>1, Carried
    <2> QED BY <2>1, <2>2, <2>3
  <1>9. Passed(u, "rows") => RowsPromise(d, u)
    <2>1. CASE s = "rows"
      <3>1. V = t.victims
        BY <2>1 DEF s
      <3>2. DeleteLocks(t.victims) \subseteq u.held
        BY <2>1, WantedEach DEF s
      <3> QED BY <3>1, <3>2 DEF RowsPromise, DeleteLocks
    <2>2. CASE s # "rows" /\ Passed(t, "rows")
      <3>1. V = t.victims /\ RowsPromise(d, t)
        BY <2>2, <1>3 DEF Promise, CapPromise
      <3> QED BY <3>1, Carried
    <2>3. CASE s # "rows" /\ ~Passed(t, "rows")
      <3>1. Passed(u, "rows") => V = {}
        BY <2>3, <1>1
      <3> QED BY <3>1 DEF RowsPromise
    <2> QED BY <2>1, <2>2, <2>3
  <1> QED BY <1>1, <1>5, <1>6, <1>7, <1>8, <1>9 DEF Promise

-----------------------------------------------------------------------------
(* Every action keeps the invariant.                                       *)

\* A step of one transaction that commits nothing.
LEMMA KeptTransaction ==
    ASSUME StoreInv, NEW p \in Active, NEW t, t # None => t.q = tx[p].q /\ IsTransaction(t),
           tx' = [tx EXCEPT ![p] = t], committed' = committed, backend' = backend,
           t # None /\ t.todo \notin {<<"resume">>, <<"tell">>} =>
              tx[p].todo \notin {<<"resume">>, <<"tell">>},
           t # None /\ backend # "postgres" => t.todo \in LocalSteps,
           t # None /\ backend = "postgres" => OnTrack(t) /\ Promise(committed, t),
           t # None => \A o \in Active \ {p} : t.held \cap tx[o].held = {}
    PROVE  StoreInv'
  <1>0. p \in Procs /\ Transactions
    BY DEF Active, StoreInv
  <1>1. backend = "postgres" => \A o \in Active \ {p} : Promise(committed', tx[o])
    BY DEF StoreInv, Transactions
  <1>2. Transactions'
    BY <1>0, <1>1, Replaced
  <1>3. tx'[p] = t /\ \A o \in Procs \ {p} : tx'[o] = tx[o]
    BY <1>0 DEF Transactions
  <1>4. Pending' \subseteq Pending
    BY <1>3 DEF Pending, Active
  <1>5. Cardinality(Pending') <= Cardinality(Pending) /\ Cardinality(Pending') \in Nat
        /\ Cardinality(Pending) \in Nat
    BY <1>4, FewerPending, PendingCount
  <1>6. committed.last \in Nat /\ MaxIds \in Nat
    BY ConstantsAssumption DEF StoreInv, IsDatabase
  <1> QED BY <1>2, <1>5, <1>6 DEF StoreInv

\* Waiting ends with one more row lock.
LEMMA LockRowShape ==
    ASSUME StoreInv, NEW p \in Procs, LockRow(p)
    PROVE  /\ backend = "postgres" /\ p \in Active /\ backend' = backend
           /\ \E l \in Missing(p) : /\ ~Held(l, p)
                                    /\ Locked(p, Granted(tx[p], {l}), l)
  <1> DEFINE t == tx[p]
  <1>1. backend = "postgres" /\ p \in Active /\ backend' = backend
    BY DEF LockRow, AtStage, Active
  <1>2. PICK l \in Missing(p) : ~Held(l, p) /\ tx' = [tx EXCEPT ![p] = Granted(t, {l})]
    BY DEF LockRow
  <1>3. IsTransaction(t)
    BY <1>1 DEF StoreInv, Transactions
  <1> DEFINE u == Granted(t, {l})
  <1>4. u = [q |-> t.q, n |-> t.n, held |-> t.held \cup {l}, victims |-> t.victims, pos |-> t.pos,
             scrubbed |-> t.scrubbed, id |-> t.id, image |-> t.image, todo |-> t.todo]
    BY <1>3, GrantedFields
  <1> HIDE DEF u, t
  <1>5. /\ IsTransaction(u) /\ u.q = t.q /\ u.todo = t.todo /\ u.held = t.held \cup {l}
        /\ u.victims = t.victims /\ u.pos = t.pos /\ u.image = t.image /\ u.scrubbed = t.scrubbed
    BY <1>3, <1>4 DEF IsTransaction
  <1>6. tx' = [tx EXCEPT ![p] = u]
    BY <1>2 DEF u
  <1>7. Locked(p, u, l)
    BY <1>5, <1>6 DEF Locked, t
  <1> QED BY <1>1, <1>2, <1>7 DEF t, u

\* A row lock breaks no promise.
LEMMA LockRowKeeps ==
    ASSUME StoreInv, NEW p \in Procs, LockRow(p)
    PROVE  StoreInv'
  <1> DEFINE t == tx[p]
  <1>1. /\ backend = "postgres" /\ p \in Active /\ backend' = backend
        /\ committed' = committed
    BY LockRowShape DEF LockRow
  <1>2. PICK l \in Missing(p) : ~Held(l, p) /\ Locked(p, Granted(t, {l}), l)
    BY LockRowShape
  <1>3. /\ IsTransaction(t) /\ OnTrack(t) /\ Promise(committed, t)
        /\ \A o \in Active \ {p} : t.held \cap tx[o].held = {}
    BY <1>1 DEF StoreInv, Transactions
  <1> DEFINE u == Granted(t, {l})
  <1>4. /\ tx' = [tx EXCEPT ![p] = u]
        /\ IsTransaction(u) /\ u.q = t.q /\ u.held = t.held \cup {l} /\ u.victims = t.victims
        /\ u.pos = t.pos /\ u.todo = t.todo
    BY <1>2 DEF Locked
  <1> HIDE DEF u, t
  <1>5. OnTrack(u) /\ \A s : Passed(u, s) <=> Passed(t, s)
    BY <1>3, <1>4 DEF OnTrack, Passed, Position
  <1>6. Promise(committed, u)
    <2>1. t.held \subseteq u.held
      BY <1>4
    <2> QED BY <1>3, <1>4, <1>5, <2>1, Carried DEF Promise
  <1>7. \A o \in Active \ {p} : u.held \cap tx[o].held = {}
    BY <1>2, <1>3, <1>4 DEF Held
  <1>8. u.todo \notin LocalSteps /\ t.todo \notin LocalSteps
    BY <1>3, <1>4, OnTrackApart, RequestTyped DEF IsTransaction
  <1> QED BY <1>1, <1>4, <1>5, <1>6, <1>7, <1>8, KeptTransaction DEF t, LocalSteps

\* A statement ends the transaction or does what Proceeds says.
LEMMA StatementShape ==
    ASSUME StoreInv, NEW p \in Procs, Statement(p)
    PROVE  /\ backend = "postgres" /\ p \in Active /\ tx[p].todo # <<>> /\ backend' = backend
           /\ \A l \in Missing(p) : ~Held(l, p)
           /\ \/ Finish(p)
              \/ \E u : Proceeds(p, u)
  <1> DEFINE t == tx[p]
             s == Head(t.todo)
             V == Chosen(t)
             M == Missing(p)
             u == Granted(Advanced(t, s, V), M)
  <1>1. /\ backend = "postgres" /\ p \in Active /\ t.todo # <<>> /\ backend' = backend
        /\ \A l \in M : ~Held(l, p)
    BY DEF Statement, AtStage, Active
  <1>2. \/ Finish(p)
        \/ ~Stops(s, t.q) /\ tx' = [tx EXCEPT ![p] = u]
    BY DEF Statement, Chosen
  <1>3. IsTransaction(t) /\ IsDatabase(committed)
    BY <1>1 DEF StoreInv, Transactions
  <1>4. ASSUME ~Stops(s, t.q), tx' = [tx EXCEPT ![p] = u]
        PROVE  Proceeds(p, u)
    <2> DEFINE todo == Rest(t, V)
               pos == IF s = "room" THEN ReadPosition(committed, t.q) ELSE t.pos
               image == IF s = "msg" THEN EventImage(committed, t.q) ELSE t.image
               scrubbed == IF s = "scrub" THEN Scrubbed(t) ELSE t.scrubbed
    <2>1. Advanced(t, s, V) = [t EXCEPT !.victims = V, !.todo = todo, !.pos = pos,
                                        !.image = image, !.scrubbed = scrubbed]
      BY DEF Advanced
    <2>2. pos \in Positions
      BY <1>3, RequestTyped, ReadPositionFound DEF IsTransaction
    <2> HIDE DEF V, M, todo, pos, image, scrubbed, s
    <2>3. u = [q |-> t.q, n |-> t.n, held |-> t.held \cup M, victims |-> V, pos |-> pos,
               scrubbed |-> scrubbed, id |-> t.id, image |-> image, todo |-> todo]
      <3> DEFINE a == Stepped(t, V, todo, pos, image, scrubbed)
      <3>2. u = Granted(a, M)
        BY <2>1 DEF Stepped
      <3> HIDE DEF t
      <3>1. a = [q |-> t.q, n |-> t.n, held |-> t.held, victims |-> V, pos |-> pos,
                 scrubbed |-> scrubbed, id |-> t.id, image |-> image, todo |-> todo]
        BY <1>3, AdvancedFields
      <3> HIDE DEF a, u
      <3>3. IsTransaction(a)
        BY <3>1, <2>2, <1>3 DEF IsTransaction
      <3>4. u = [q |-> a.q, n |-> a.n, held |-> a.held \cup M, victims |-> a.victims, pos |-> a.pos,
                 scrubbed |-> a.scrubbed, id |-> a.id, image |-> a.image, todo |-> a.todo]
        BY <3>2, <3>3, GrantedFields
      <3> QED BY ONLY <3>1, <3>4
    <2> HIDE DEF u, t
    <2>4. /\ IsTransaction(u) /\ u.q = t.q /\ u.held = t.held \cup M /\ u.victims = V
          /\ u.pos = pos /\ u.todo = todo /\ u.image = image /\ u.scrubbed = scrubbed
      BY <2>2, <2>3, <1>3 DEF IsTransaction
    <2> QED BY <1>4, <2>4 DEF Proceeds, t, s, V, M, todo, pos, image, scrubbed
  <1> QED BY <1>1, <1>2, <1>4

LEMMA StatementKeeps ==
    ASSUME StoreInv, NEW p \in Procs, Statement(p)
    PROVE  StoreInv'
  <1> DEFINE t == tx[p]
             s == Head(t.todo)
             M == Missing(p)
  <1>1. /\ backend = "postgres" /\ p \in Active /\ t.todo # <<>>
        /\ committed' = committed /\ backend' = backend
        /\ \A l \in M : ~Held(l, p)
        /\ Finish(p) \/ \E u : Proceeds(p, u)
    BY StatementShape DEF Statement
  <1>3. /\ IsTransaction(t) /\ OnTrack(t) /\ Promise(committed, t)
        /\ \A o \in Active \ {p} : t.held \cap tx[o].held = {}
        /\ IsDatabase(committed)
    BY <1>1 DEF StoreInv, Transactions
  <1>m. M = Wanted(t, s) \ t.held
    BY MissingWanted
  <1>q. t.q \in Requests /\ t.q \in Request /\ t.q.op \in Operations
    BY <1>3, RequestTyped DEF IsTransaction
  <1>4. ASSUME NEW u, Proceeds(p, u)
        PROVE  StoreInv'
    <2>4. /\ IsTransaction(u) /\ u.q = t.q /\ u.held = t.held \cup M /\ u.victims = Chosen(t)
          /\ u.pos = (IF s = "room" THEN ReadPosition(committed, t.q) ELSE t.pos)
          /\ u.todo = Rest(t, Chosen(t))
          /\ tx' = [tx EXCEPT ![p] = u] /\ ~Stops(s, t.q)
      BY <1>4 DEF Proceeds
    <2> HIDE DEF t, M
    <2>5. Wanted(t, s) \subseteq u.held /\ t.held \subseteq u.held
      BY <2>4, <1>m
    <2>6. OnTrack(u) /\ Promise(committed, u)
      BY <1>1, <1>3, <1>q, <2>4, <2>5, StatementPromise DEF Chosen
    <2>7. \A o \in Active \ {p} : u.held \cap tx[o].held = {}
      BY <1>1, <1>3, <2>4 DEF Held
    <2>8. u.todo \notin LocalSteps /\ t.todo \notin LocalSteps
      BY <1>3, <1>q, <2>4, <2>6, OnTrackApart
    <2> QED BY <1>1, <2>4, <2>6, <2>7, <2>8, KeptTransaction DEF t, LocalSteps
  <1> QED BY <1>1, <1>4, FinishKeeps

LEMMA AbortKeeps ==
    ASSUME StoreInv, NEW p \in Procs, Abort(p)
    PROVE  StoreInv' /\ committed' = committed
  BY FinishKeeps DEF Abort

LEMMA ResumeKeeps ==
    ASSUME StoreInv, NEW p \in Procs, Resume(p)
    PROVE  StoreInv' /\ committed' = committed
  <1>1. /\ p \in Active /\ tx[p].todo = <<"resume">>
        /\ committed' = committed /\ backend' = backend
    BY DEF Resume, Active
  <1>2. IsTransaction(tx[p]) /\ tx[p].q.op \in Operations
    BY <1>1, RequestTyped DEF StoreInv, Transactions, IsTransaction
  <1>3. backend # "postgres"
    <2>1. tx[p].todo \in LocalSteps
      BY <1>1 DEF LocalSteps
    <2> QED BY <1>1, <1>2, <2>1, OnTrackApart DEF StoreInv, Transactions
  <1>4. CASE Finish(p)
    BY <1>1, <1>4, FinishKeeps
  <1>5. CASE tx' = [tx EXCEPT ![p] = [@ EXCEPT !.todo = <<"tell">>]]
    <2> DEFINE t == tx[p]
               u == [t EXCEPT !.todo = <<"tell">>]
    <2>1. IsTransaction(u) /\ u.q = t.q /\ u.held = t.held /\ u.todo = <<"tell">>
      BY <1>2 DEF IsTransaction
    <2>2. tx' = [tx EXCEPT ![p] = u]
      BY <1>5
    <2> HIDE DEF u
    <2>3. \A o \in Active \ {p} : u.held \cap tx[o].held = {}
      BY <1>1, <2>1 DEF StoreInv, Transactions
    <2> QED BY <1>1, <1>3, <2>1, <2>2, <2>3, KeptTransaction DEF LocalSteps
  <1> QED BY <1>1, <1>4, <1>5 DEF Resume

LEMMA TellKeeps ==
    ASSUME StoreInv, NEW p \in Procs, Tell(p)
    PROVE  StoreInv' /\ committed' = committed
  BY FinishKeeps DEF Tell

LEMMA LastAfter ==
    ASSUME NEW d, NEW q \in Request, NEW V, NEW pos, IsDatabase(d)
    PROVE  Effect(d, q, V, pos).last = IF q.op = "create" THEN d.last + 1 ELSE d.last
  <1>1. Writes(Effect(d, q, V, pos), d, q, V, pos) /\ q.op \in Operations
    BY Effects DEF Request
  <1>2. \A rooms, flags, msg, last, control, cursor :
            Database(rooms, flags, msg, last, control, cursor).last = last
    BY DEF Database
  <1> QED BY <1>1, <1>2 DEF Writes, Operations

LEMMA RoomForMore ==
    ASSUME StoreInv, NEW p \in Active, tx[p].todo \notin {<<"resume">>, <<"tell">>},
           tx[p].q.op = "create"
    PROVE  committed.last < MaxIds
  <1>1. p \in Pending
    BY DEF Pending
  <1>2. Cardinality(Pending) >= 1 /\ Cardinality(Pending) \in Nat
    BY <1>1, PendingCount
  <1> QED BY <1>2, ConstantsAssumption DEF StoreInv, IsDatabase

\* A commit leaves ids for the creations still under way.
LEMMA CommittedCount ==
    ASSUME StoreInv, NEW p \in Active, tx[p].todo \notin {<<"resume">>, <<"tell">>},
           tx[p].q \in Request, NEW V, NEW pos,
           committed' = Effect(committed, tx[p].q, V, pos),
           NEW t, tx' = [tx EXCEPT ![p] = t],
           t # None => t.q = tx[p].q /\ t.todo = <<"resume">>
    PROVE  committed'.last + Cardinality(Pending') <= MaxIds
  <1>0. /\ tx = [o \in Procs |-> tx[o]] /\ p \in Procs
        /\ IsDatabase(committed) /\ committed.last \in Nat /\ MaxIds \in Nat
        /\ committed.last + Cardinality(Pending) <= MaxIds
    BY ConstantsAssumption DEF StoreInv, Transactions, Active, IsDatabase
  <1>1. tx'[p] = t /\ \A o \in Procs \ {p} : tx'[o] = tx[o]
    BY <1>0
  <1>2. Pending' \subseteq Pending /\ p \notin Pending'
    BY <1>1 DEF Pending, Active
  <1>3. /\ Cardinality(Pending') \in Nat /\ Cardinality(Pending) \in Nat
        /\ Cardinality(Pending') <= Cardinality(Pending)
        /\ p \in Pending => Cardinality(Pending') <= Cardinality(Pending) - 1
    BY <1>2, FewerPending, PendingCount
  <1>4. committed'.last = IF tx[p].q.op = "create" THEN committed.last + 1 ELSE committed.last
    BY <1>0, LastAfter
  <1>5. tx[p].q.op = "create" => p \in Pending
    BY DEF Pending
  <1> QED BY <1>0, <1>3, <1>4, <1>5

LEMMA CommitLocalKeeps ==
    ASSUME StoreInv, NEW p \in Procs, CommitLocal(p)
    PROVE  StoreInv' /\ (Store!Next \/ committed' = committed)
  <1> DEFINE t == tx[p]
             q == t.q
             V == Victims(committed, q)
             pos == ReadPosition(committed, q)
             u == [t EXCEPT !.todo = <<"resume">>, !.id = EventId(committed, q),
                            !.image = EventImage(committed, q)]
  <1>1. p \in Active /\ t.todo = <<"local">> /\ backend' = backend
    BY DEF CommitLocal, Active
  <1>2. /\ IsTransaction(t) /\ Transactions /\ IsDatabase(committed)
        /\ q \in Requests /\ q \in Request /\ q.op \in Operations
    BY <1>1, RequestTyped DEF StoreInv, Transactions, IsTransaction
  <1>3. backend # "postgres"
    <2>1. t.todo \in LocalSteps
      BY <1>1 DEF LocalSteps
    <2> QED BY <1>1, <1>2, <2>1, OnTrackApart DEF Transactions
  <1>4. CASE Finish(p) /\ committed' = committed
    BY <1>1, <1>4, FinishKeeps
  <1>5. CASE /\ RoomAllows(committed, q) /\ RowAllows(committed, q) /\ Changes(committed, q)
             /\ committed' = Effect(committed, q, V, pos)
             /\ tx' = [tx EXCEPT ![p] = u]
    <2>0. t.todo \notin {<<"resume">>, <<"tell">>}
      <3>1. "local" # "resume" /\ "local" # "tell"
        OBVIOUS
      <3> QED BY <1>1, <3>1
    <2>1. q.op = "create" => committed.last < MaxIds
      BY <1>1, <2>0, RoomForMore
    <2>2. Store!Next
      BY <1>2, <1>5, <2>1, LocalStep
    <2>3. pos \in Positions
      BY <1>2, ReadPositionFound
    <2>4. IsDatabase(committed')
      BY <1>2, <1>5, <2>1, <2>3, EffectTyped
    <2>5. IsTransaction(u) /\ u.q = t.q /\ u.held = t.held /\ u.todo = <<"resume">>
      <3> DEFINE id == EventId(committed, q)
                 image == EventImage(committed, q)
      <3>0. u = Answered(t, <<"resume">>, id, image)
        BY DEF Answered
      <3> HIDE DEF u, t, id, image
      <3>1. u = [q |-> t.q, n |-> t.n, held |-> t.held, victims |-> t.victims, pos |-> t.pos,
                 scrubbed |-> t.scrubbed, id |-> id, image |-> image, todo |-> <<"resume">>]
        BY <1>2, <3>0, LocalFields
      <3> QED BY <1>2, <3>1 DEF IsTransaction
    <2>6. tx' = [tx EXCEPT ![p] = u]
      BY <1>5
    <2> HIDE DEF u, V, pos
    <2>7. \A o \in Active \ {p} : u.held \cap tx[o].held = {}
      BY <1>1, <1>2, <2>5 DEF Transactions
    <2>8. Transactions'
      BY <1>1, <1>2, <1>3, <2>5, <2>6, <2>7, Replaced DEF LocalSteps
    <2>9. committed'.last + Cardinality(Pending') <= MaxIds
      BY <1>1, <1>2, <1>5, <2>0, <2>5, <2>6, CommittedCount
    <2> QED BY <2>2, <2>4, <2>8, <2>9 DEF StoreInv
  <1>6. \/ Finish(p) /\ committed' = committed
        \/ /\ RoomAllows(committed, q) /\ RowAllows(committed, q) /\ Changes(committed, q)
           /\ committed' = Effect(committed, q, V, pos)
           /\ tx' = [tx EXCEPT ![p] = u]
    BY DEF CommitLocal
  <1> QED BY <1>4, <1>5, <1>6

LEMMA CommitKeeps ==
    ASSUME StoreInv, NEW p \in Procs, Commit(p)
    PROVE  StoreInv' /\ Store!Next
  <1> DEFINE t == tx[p]
             q == t.q
  <1>1. /\ p \in Active /\ t.todo = <<>> /\ backend = "postgres" /\ backend' = backend
        /\ committed' = Effect(committed, q, t.victims, t.pos)
        /\ tx' = [tx EXCEPT ![p] = None]
    BY DEF Commit, Active, Finish
  <1>2. /\ IsTransaction(t) /\ Transactions /\ IsDatabase(committed)
        /\ OnTrack(t) /\ Promise(committed, t)
        /\ q \in Requests /\ q \in Request /\ q.op \in Operations /\ t.pos \in Positions
    BY <1>1, RequestTyped DEF StoreInv, Transactions, IsTransaction
  <1>3. t.todo \notin {<<"resume">>, <<"tell">>}
    BY <1>2, OnTrackApart DEF LocalSteps
  <1>4. q.op = "create" => committed.last < MaxIds
    BY <1>1, <1>3, RoomForMore
  <1>5. Store!Next /\ Covers(t.held, committed, q, t.victims)
    BY <1>1, <1>2, <1>4, CommitStep
  <1>6. IsDatabase(committed')
    BY <1>1, <1>2, <1>4, EffectTyped
  <1>7. Moves(committed, committed', t.held)
    BY <1>1, <1>2, <1>5, EffectMoves
  <1>8. \A o \in Active \ {p} : tx[o].held \cap t.held = {}
    BY <1>1, <1>2 DEF Transactions
  <1>9. \A o \in Active \ {p} : Promise(committed', tx[o])
    BY <1>1, <1>2, <1>6, <1>7, <1>8, OthersStand
  <1>10. Transactions'
    BY <1>1, <1>2, <1>9, Replaced
  <1>11. committed'.last + Cardinality(Pending') <= MaxIds
    BY <1>1, <1>2, <1>3, CommittedCount
  <1> QED BY <1>5, <1>6, <1>10, <1>11 DEF StoreInv

LEMMA LapseKeeps ==
    ASSUME StoreInv, NEW r \in Rooms, NEW m \in Members, Lapse(r, m)
    PROVE  StoreInv' /\ Store!Next
  <1> DEFINE d == committed
  <1>0. IsDatabase(d) /\ Transactions /\ tx' = tx /\ backend' = backend
    BY DEF StoreInv, Lapse
  <1>1. PICK c \in d.control[r][m] :
            committed' = [d EXCEPT !.control = Put(@, r, m, d.control[r][m] \ {c})]
    BY DEF Lapse
  <1> DEFINE v == d.control[r][m] \ {c}
             x == Put(d.control, r, m, v)
  <1>2. v \in SUBSET Controls /\ v \subseteq d.control[r][m]
    BY <1>0 DEF IsDatabase
  <1>3. committed' = [d EXCEPT !.control = x]
    BY <1>1
  <1>c. d.control \in [Rooms -> [Members -> SUBSET Controls]]
    BY <1>0 DEF IsDatabase
  <1> HIDE DEF v
  <1>4. /\ x \in [Rooms -> [Members -> SUBSET Controls]]
        /\ \A s \in Rooms, o \in Members : x[s][o] = IF s = r /\ o = m THEN v ELSE d.control[s][o]
    <2> DEFINE f == d.control
               g == [f[r] EXCEPT ![m] = v]
    <2>1. f \in [Rooms -> [Members -> SUBSET Controls]]
      BY <1>c
    <2>2. x = [f EXCEPT ![r] = g]
      BY DEF Put
    <2> HIDE DEF f, d, x
    <2>3. g \in [Members -> SUBSET Controls] /\ \A o \in Members : g[o] = IF o = m THEN v ELSE f[r][o]
      BY <2>1, <1>2
    <2> HIDE DEF g
    <2>4. /\ x \in [Rooms -> [Members -> SUBSET Controls]]
          /\ \A s \in Rooms, o \in Members : x[s][o] = IF s = r /\ o = m THEN v ELSE f[s][o]
      BY ONLY <2>1, <2>2, <2>3, r \in Rooms
    <2> QED BY <2>4 DEF f
  <1> HIDE DEF x
  <1>5. committed' = Database(d.rooms, d.flags, d.msg, d.last, x, d.cursor)
    BY <1>0, <1>3, Fields DEF Database
  <1>6. \A s \in Rooms, o \in Members : x[s][o] \subseteq d.control[s][o]
    BY <1>2, <1>4
  <1>7. Moves(d, committed', {})
    BY <1>0, <1>5, <1>6, MovesSameRows
  <1>8. IsDatabase(committed') /\ committed'.last = d.last
    BY <1>0, <1>4, <1>5 DEF IsDatabase, Database
  <1>9. backend = "postgres" => \A o \in Active : Promise(committed', tx[o])
    BY <1>0, <1>7, <1>8, OthersStand
  <1>10. Active' = Active /\ Pending' = Pending
    BY <1>0 DEF Active, Pending
  <1>11. Transactions'
    BY <1>0, <1>9, <1>10 DEF Transactions
  <1>12. StoreInv'
    BY <1>8, <1>10, <1>11 DEF StoreInv
  <1>13. Store!Lapse(r, m)
    <2>1. \A f, w : Store!Put(f, r, m, w) = Put(f, r, m, w)
      BY DEF Put, Store!Put
    <2> QED BY <1>1, <2>1, Zenon DEF Store!Lapse
  <1>14. Store!Next
    BY <1>13 DEF Store!Next
  <1> QED BY <1>12, <1>14

-----------------------------------------------------------------------------
(* The theorems.                                                           *)

LEMMA InitKeeps ==
    ASSUME Init
    PROVE  StoreInv /\ Store!Init
  <1>1. /\ committed \in Initial /\ IsDatabase(committed)
        /\ tx = [p \in Procs |-> None]
    BY ConstantsAssumption DEF Init
  <1>2. Active = {} /\ Pending = {}
    BY <1>1 DEF Active, Pending
  <1>3. Transactions
    <2>1. tx = [p \in Procs |-> tx[p]]
      BY <1>1
    <2> QED BY <1>2, <2>1 DEF Transactions
  <1>4. committed.last + Cardinality(Pending) <= MaxIds
    BY <1>1, <1>2, FS_EmptySet, ConstantsAssumption DEF IsDatabase
  <1>5. Store!Init
    BY <1>1 DEF Store!Init
  <1> QED BY <1>1, <1>3, <1>4, <1>5 DEF StoreInv

LEMMA Unmoved ==
    ASSUME StoreInv, tx' = tx, committed' = committed, backend' = backend
    PROVE  StoreInv'
  <1>1. Active' = Active /\ Pending' = Pending
    BY DEF Active, Pending
  <1>2. Transactions'
    BY <1>1 DEF StoreInv, Transactions
  <1> QED BY <1>1, <1>2 DEF StoreInv

LEMMA StepKeeps ==
    ASSUME StoreInv, [Next]_vars
    PROVE  StoreInv' /\ (Store!Next \/ committed' = committed)
  <1>1. ASSUME NEW p \in Procs, NEW q \in Requests, Begin(p, q)
        PROVE  StoreInv' /\ committed' = committed
    BY <1>1, BeginKeeps DEF Begin
  <1>2. ASSUME NEW p \in Procs, Abort(p) PROVE StoreInv' /\ committed' = committed
    BY <1>2, AbortKeeps
  <1>3. ASSUME NEW p \in Procs, CommitLocal(p)
        PROVE  StoreInv' /\ (Store!Next \/ committed' = committed)
    BY <1>3, CommitLocalKeeps
  <1>4. ASSUME NEW p \in Procs, Resume(p) PROVE StoreInv' /\ committed' = committed
    BY <1>4, ResumeKeeps
  <1>5. ASSUME NEW p \in Procs, Tell(p) PROVE StoreInv' /\ committed' = committed
    BY <1>5, TellKeeps
  <1>6. ASSUME NEW p \in Procs, LockRow(p) PROVE StoreInv' /\ committed' = committed
    BY <1>6, LockRowKeeps DEF LockRow
  <1>7. ASSUME NEW p \in Procs, Statement(p) PROVE StoreInv' /\ committed' = committed
    BY <1>7, StatementKeeps DEF Statement
  <1>8. ASSUME NEW p \in Procs, Commit(p) PROVE StoreInv' /\ Store!Next
    BY <1>8, CommitKeeps
  <1>9. ASSUME NEW r \in Rooms, Reload(r) PROVE StoreInv' /\ committed' = committed
    BY <1>9, Unmoved DEF Reload
  <1>10. ASSUME NEW r \in Rooms, NEW m \in Members, Lapse(r, m) PROVE StoreInv' /\ Store!Next
    BY <1>10, LapseKeeps
  <1>11. ASSUME UNCHANGED vars PROVE StoreInv' /\ committed' = committed
    BY <1>11, Unmoved DEF vars
  <1> QED BY <1>1, <1>2, <1>3, <1>4, <1>5, <1>6, <1>7, <1>8, <1>9, <1>10, <1>11 DEF Next

\* At every instant each transaction holds the locks of the statements it has
\* passed, and what it read under them is still true of the committed database:
\* no check of _lock_room, _lock_message, the capacity lock or a DELETE is stale
\* when its transaction commits (postgres_store.py).
THEOREM StoreInvariance == Spec => []StoreInv
  <1>1. Init => StoreInv
    BY InitKeeps
  <1>2. StoreInv /\ [Next]_vars => StoreInv'
    BY StepKeeps
  <1> QED BY <1>1, <1>2, PTL DEF Spec

\* Each commit does what the whole operation would do on the database of that
\* instant, in SQLite and in PostgreSQL: RoomStore implements ChatStore.
THEOREM StoreIsAtomic == Spec => Atomic
  <1>1. Init => Store!Init
    BY InitKeeps
  <1>2. StoreInv /\ [Next]_vars => [Store!Next]_committed
    BY StepKeeps
  <1> QED BY <1>1, <1>2, StoreInvariance, PTL DEF Spec, Atomic, Store!Spec

-----------------------------------------------------------------------------
(* Integrity: what a rewrite, a removal and an insertion keep.             *)

\* Integrity, of the messages and rooms alone.
Kept(msg, rooms) ==
    /\ \A i, j \in DOMAIN msg :
          msg[i].key # None /\ msg[i].key = msg[j].key /\ msg[i].room = msg[j].room => i = j
    /\ \A i \in DOMAIN msg : msg[i].parent # 0 =>
          /\ msg[i].parent \in DOMAIN msg
          /\ msg[msg[i].parent].room = msg[i].room
          /\ msg[msg[i].parent].parent = 0
    /\ \A i \in DOMAIN msg : msg[i].deleted =>
          msg[i].text = None /\ msg[i].reacts = {} /\ msg[i].pin = None
    /\ \A i \in DOMAIN msg : msg[i].room \in rooms

\* Integrity is about the messages and rooms only.
LEMMA IntegrityKept ==
    ASSUME NEW d
    PROVE  Integrity(d) <=> Kept(d.msg, d.rooms)
  BY DEF Integrity, UniqueKeys, FlatThreads, BareTombstones, Housed, Kept

\* Removing messages keeps integrity: replies to what goes are detached.
LEMMA RemovalKeeps ==
    ASSUME NEW msg, NEW rooms, NEW V, NEW left, Kept(msg, rooms),
           \A i \in DOMAIN msg : msg[i] \in Row,
           \A i \in DOMAIN msg \ V : msg[i].room \in left
    PROVE  Kept(Without(msg, V), left)
  <1> DEFINE w == Without(msg, V)
  <1>1. DOMAIN w = DOMAIN msg \ V
    BY DomainWithout
  <1>2. \A i \in DOMAIN msg \ V :
            /\ w[i].parent = IF msg[i].parent \in V THEN 0 ELSE msg[i].parent
            /\ \A f \in {"room", "by", "key", "text", "reacts", "pin", "deleted"} : w[i][f] = msg[i][f]
    BY RowsWithout
  <1> HIDE DEF w
  <1>3. \A i \in DOMAIN w :
            /\ i \in DOMAIN msg
            /\ w[i].room = msg[i].room /\ w[i].key = msg[i].key /\ w[i].text = msg[i].text
            /\ w[i].reacts = msg[i].reacts /\ w[i].pin = msg[i].pin /\ w[i].deleted = msg[i].deleted
            /\ w[i].parent \in {0, msg[i].parent} /\ (w[i].parent # 0 => w[i].parent \notin V)
    BY <1>1, <1>2
  <1>4. \A i, j \in DOMAIN w :
          w[i].key # None /\ w[i].key = w[j].key /\ w[i].room = w[j].room => i = j
    BY <1>3 DEF Kept
  <1>5. \A i \in DOMAIN w : w[i].parent # 0 =>
          /\ w[i].parent \in DOMAIN w
          /\ w[w[i].parent].room = w[i].room
          /\ w[w[i].parent].parent = 0
    <2> SUFFICES ASSUME NEW i \in DOMAIN w, w[i].parent # 0
                 PROVE  LET p == w[i].parent IN
                        p \in DOMAIN w /\ w[p].room = w[i].room /\ w[p].parent = 0
      OBVIOUS
    <2> DEFINE p == msg[i].parent
    <2>1. w[i].parent = p /\ p # 0 /\ p \notin V /\ i \in DOMAIN msg
      BY <1>3
    <2>2. p \in DOMAIN msg /\ msg[p].room = msg[i].room /\ msg[p].parent = 0
      BY <2>1 DEF Kept
    <2>3. p \in DOMAIN w
      BY <2>1, <2>2, <1>1
    <2> QED BY <2>1, <2>2, <2>3, <1>3
  <1>6. \A i \in DOMAIN w : w[i].deleted => w[i].text = None /\ w[i].reacts = {} /\ w[i].pin = None
    BY <1>3 DEF Kept
  <1>7. \A i \in DOMAIN w : w[i].room \in left
    BY <1>1, <1>3
  <1> QED BY <1>4, <1>5, <1>6, <1>7 DEF Kept, w

\* So does inserting a message that is no replay and whose parent was checked.
LEMMA InsertionKeeps ==
    ASSUME NEW d, NEW q \in Request, IsDatabase(d), Kept(d.msg, d.rooms),
           ~Replayed(d, q), ParentAllows(d, q), q.room \in d.rooms
    PROVE  /\ Kept(Inserted(d, q), d.rooms)
           /\ \A i \in DOMAIN Inserted(d, q) : Inserted(d, q)[i] \in Row
  <1> DEFINE n == d.last + 1
             ins == Inserted(d, q)
             row == NewRow(q)
  <1>1. /\ row \in Row /\ row.room = q.room /\ row.key = q.key /\ row.parent = q.msg
        /\ row.deleted = FALSE
    BY NewRowTyped DEF NewRow
  <1>2. /\ d.last \in Nat /\ DOMAIN d.msg \subseteq 1..d.last /\ n \notin DOMAIN d.msg
        /\ \A i \in DOMAIN d.msg : d.msg[i] \in Row
        /\ 0 \notin DOMAIN d.msg
    BY ConstantsAssumption DEF IsDatabase
  <1>3. /\ DOMAIN ins = DOMAIN d.msg \cup {n}
        /\ ins[n] = row /\ \A i \in DOMAIN d.msg : ins[i] = d.msg[i]
    BY <1>2 DEF Inserted
  <1>4. q.msg # 0 => /\ q.msg \in DOMAIN d.msg /\ d.msg[q.msg].room = q.room
                     /\ d.msg[q.msg].parent = 0
    BY DEF ParentAllows, Live, Target, InRoom
  <1>5. q.key # None => \A i \in DOMAIN d.msg : d.msg[i].room = q.room => d.msg[i].key # q.key
    BY DEF Replayed, InRoom
  <1> HIDE DEF n, ins, row
  <1>6. \A i, j \in DOMAIN ins :
          ins[i].key # None /\ ins[i].key = ins[j].key /\ ins[i].room = ins[j].room => i = j
    BY <1>1, <1>2, <1>3, <1>5 DEF Kept
  <1>7. \A i \in DOMAIN ins : ins[i].parent # 0 =>
          /\ ins[i].parent \in DOMAIN ins
          /\ ins[ins[i].parent].room = ins[i].room
          /\ ins[ins[i].parent].parent = 0
    BY <1>1, <1>2, <1>3, <1>4 DEF Kept
  <1>8. \A i \in DOMAIN ins :
          ins[i].deleted => ins[i].text = None /\ ins[i].reacts = {} /\ ins[i].pin = None
    BY <1>1, <1>3 DEF Kept
  <1>9. \A i \in DOMAIN ins : ins[i].room \in d.rooms
    BY <1>1, <1>3 DEF Kept
  <1>10. \A i \in DOMAIN ins : ins[i] \in Row
    BY <1>1, <1>2, <1>3
  <1> QED BY <1>6, <1>7, <1>8, <1>9, <1>10 DEF Kept, ins

\* A rewrite keeps the row in its room and thread; only a delete makes it a
\* tombstone, and a bare one.
LEMMA RewriteOf ==
    ASSUME NEW row \in Row, NEW q \in Request, q.op \in Rewrites
    PROVE  LET new == Rewritten(row, q) IN
           /\ new \in Row
           /\ \A f \in {"room", "by", "key", "parent"} : new[f] = row[f]
           /\ q.op # "delete" => new.deleted = row.deleted
           /\ q.op = "delete" =>
                 new.deleted = TRUE /\ new.text = None /\ new.reacts = {} /\ new.pin = None
  <1>1. /\ Rewritten(row, q) \in Row
        /\ \A f \in {"room", "by", "key", "parent"} : Rewritten(row, q)[f] = row[f]
    BY RowsRewritten DEF Rewrites
  <1>2. q.op = "delete" => Rewritten(row, q) = Tombstone(row)
    BY Zenon DEF Rewritten
  <1>3. LET new == Tombstone(row) IN
        new.deleted = TRUE /\ new.text = None /\ new.reacts = {} /\ new.pin = None
    BY DEF Tombstone, Row
  <1>4. q.op = "update" => Rewritten(row, q).deleted = row.deleted
    <2>1. q.op = "update" => Rewritten(row, q) = [row EXCEPT !.text = q.text]
      BY Zenon DEF Rewritten
    <2> QED BY <2>1 DEF Row
  <1>5. q.op = "react" => Rewritten(row, q).deleted = row.deleted
    <2> DEFINE x == IF q.on THEN row.reacts \cup {<<q.by, q.emoji>>}
                            ELSE row.reacts \ {<<q.by, q.emoji>>}
    <2>1. q.op = "react" => Rewritten(row, q) = [row EXCEPT !.reacts = x]
      BY Zenon DEF Rewritten
    <2> HIDE DEF x
    <2> QED BY <2>1 DEF Row
  <1>6. q.op = "pin" => Rewritten(row, q).deleted = row.deleted
    <2> DEFINE x == IF q.on THEN q.by ELSE None
    <2>1. q.op = "pin" => Rewritten(row, q) = [row EXCEPT !.pin = x]
      BY Zenon DEF Rewritten
    <2> HIDE DEF x
    <2> QED BY <2>1 DEF Row
  <1> QED BY <1>1, <1>2, <1>3, <1>4, <1>5, <1>6 DEF Rewrites

\* Rewriting one row keeps integrity.
LEMMA EditKeeps ==
    ASSUME NEW d, NEW q \in Request, IsDatabase(d), Kept(d.msg, d.rooms),
           q.op \in Rewrites, q.op # "delete" => Live(d, q)
    PROVE  Kept(Edited(d, q), d.rooms)
  <1> DEFINE w == Edited(d, q)
  <1>1. /\ DOMAIN w = DOMAIN d.msg
        /\ \A i \in DOMAIN d.msg : w[i] = IF i = q.msg THEN Rewritten(d.msg[i], q) ELSE d.msg[i]
    BY DEF Edited
  <1>2. \A i \in DOMAIN d.msg : d.msg[i] \in Row
    BY DEF IsDatabase
  <1>3. q.op # "delete" => ~d.msg[q.msg].deleted
    BY DEF Live
  <1> HIDE DEF w
  <1>4. \A i \in DOMAIN w :
            /\ w[i].room = d.msg[i].room /\ w[i].key = d.msg[i].key /\ w[i].parent = d.msg[i].parent
            /\ i # q.msg => w[i] = d.msg[i]
            /\ i = q.msg /\ w[i].deleted => w[i].text = None /\ w[i].reacts = {} /\ w[i].pin = None
    <2> TAKE i \in DOMAIN w
    <2>1. CASE i # q.msg
      BY <2>1, <1>1
    <2>2. CASE i = q.msg
      <3> DEFINE row == d.msg[i]
                 new == Rewritten(row, q)
      <3>1. w[i] = new /\ row \in Row /\ (q.op # "delete" => ~row.deleted)
        BY <2>2, <1>1, <1>2, <1>3
      <3> HIDE DEF row
      <3>2. /\ \A f \in {"room", "by", "key", "parent"} : new[f] = row[f]
            /\ q.op # "delete" => new.deleted = row.deleted
            /\ q.op = "delete" =>
                  new.deleted = TRUE /\ new.text = None /\ new.reacts = {} /\ new.pin = None
        BY <3>1, RewriteOf
      <3> HIDE DEF new
      <3> QED BY <3>1, <3>2, <2>2 DEF row
    <2> QED BY <2>1, <2>2
  <1>5. \A i, j \in DOMAIN w :
          w[i].key # None /\ w[i].key = w[j].key /\ w[i].room = w[j].room => i = j
    BY <1>1, <1>4 DEF Kept
  <1>6. \A i \in DOMAIN w : w[i].parent # 0 =>
          /\ w[i].parent \in DOMAIN w
          /\ w[w[i].parent].room = w[i].room
          /\ w[w[i].parent].parent = 0
    BY <1>1, <1>4 DEF Kept
  <1>7. \A i \in DOMAIN w : w[i].deleted => w[i].text = None /\ w[i].reacts = {} /\ w[i].pin = None
    BY <1>1, <1>4 DEF Kept
  <1>8. \A i \in DOMAIN w : w[i].room \in d.rooms
    BY <1>1, <1>4 DEF Kept
  <1> QED BY <1>5, <1>6, <1>7, <1>8 DEF Kept, w

-----------------------------------------------------------------------------
(* What the steps of ChatStore keep.                                       *)

\* A step of ChatStore that writes messages or rooms.
Changed(e, d, q, V, pos) ==
    /\ Writes(e, d, q, V, pos)
    /\ q.op # "read" => RoomAllows(d, q) /\ RowAllows(d, q) /\ Changes(d, q)
    /\ q.op = "create" => d.last < MaxIds
    /\ q.op \in {"create", "retain", "deleteRoom"} => V = Victims(d, q)

\* The steps of ChatStore, by what they write.
LEMMA StoreChanges ==
    ASSUME IsDatabase(committed), Store!Next
    PROVE  \/ committed'.msg = committed.msg /\ committed'.rooms = committed.rooms
           \/ \E q \in Requests : \E V, pos : Changed(committed', committed, q, V, pos)
  <1> DEFINE d == committed
  <1>0. \A q \in Requests : \A V, pos :
            Store!Effect(d, q, V, pos) = Effect(d, q, V, pos) /\ Writes(Effect(d, q, V, pos), d, q, V, pos)
    BY SameEffect, Effects, RequestTyped
  <1>1. \A q : Store!Accepts(q) => RoomAllows(d, q) /\ RowAllows(d, q) /\ Changes(d, q)
    BY SameChecks DEF Store!Accepts
  <1>2. \A q : Store!Victims(d, q) = Victims(d, q)
    BY SameVictims
  <1>3. ASSUME NEW q \in Requests, Store!CreateMessage(q)
        PROVE  Changed(committed', d, q, Victims(d, q), 0)
    BY <1>3, <1>0, <1>1, <1>2 DEF Store!CreateMessage, Changed
  <1>4. ASSUME NEW q \in Requests, Store!RewriteMessage(q)
        PROVE  Changed(committed', d, q, {}, 0)
    BY <1>4, <1>0, <1>1 DEF Store!RewriteMessage, Changed
  <1>5. ASSUME NEW q \in Requests, Store!Administer(q)
        PROVE  Changed(committed', d, q, Victims(d, q), 0)
    BY <1>5, <1>0, <1>1, <1>2 DEF Store!Administer, Changed
  <1>6. ASSUME NEW q \in Requests, Store!RunRetention(q)
        PROVE  Changed(committed', d, q, Victims(d, q), 0)
    <2>1. q.op = "retain" /\ q.op \in Operations
      BY <1>6, RequestTyped DEF Store!RunRetention
    <2>2. RoomAllows(d, q) /\ RowAllows(d, q) /\ Changes(d, q)
      BY <2>1, RoomAllowsEach, RowAllowsEach, ChangesEach
    <2> QED BY <1>6, <2>1, <2>2, <1>0, <1>2 DEF Store!RunRetention, Changed
  <1>7. ASSUME NEW q \in Requests, Store!MarkRead(q)
        PROVE  \E pos : Changed(committed', d, q, {}, pos)
    BY <1>7, <1>0 DEF Store!MarkRead, Changed
  <1>8. ASSUME NEW q \in Requests, Store!ClearReadState(q)
        PROVE  Changed(committed', d, q, {}, 0)
    BY <1>8, <1>0, <1>1 DEF Store!ClearReadState, Changed
  <1>9. ASSUME NEW r \in Rooms, NEW m \in Members, Store!Lapse(r, m)
        PROVE  committed'.msg = committed.msg /\ committed'.rooms = committed.rooms
    <2>1. PICK x : committed' = [d EXCEPT !.control = x]
      BY <1>9 DEF Store!Lapse
    <2> QED BY <2>1, Fields DEF Database
  <1> QED BY <1>3, <1>4, <1>5, <1>6, <1>7, <1>8, <1>9 DEF Store!Next

\* Every operation that is accepted keeps integrity.
LEMMA IntegrityStep ==
    ASSUME NEW d, NEW e, NEW q \in Requests, NEW V, NEW pos, IsDatabase(d), Integrity(d),
           Changed(e, d, q, V, pos)
    PROVE  Integrity(e)
  <1>0. q \in Request /\ q.op \in Operations
    BY RequestTyped
  <1>1. Kept(d.msg, d.rooms) /\ \A i \in DOMAIN d.msg : d.msg[i] \in Row
    BY IntegrityKept DEF IsDatabase
  <1>2. \A rooms, flags, msg, last, control, cursor :
            LET x == Database(rooms, flags, msg, last, control, cursor) IN
            x.rooms = rooms /\ x.msg = msg
    BY DEF Database
  <1>3. q.op # "read" => RoomAllows(d, q) /\ RowAllows(d, q) /\ Changes(d, q)
    BY DEF Changed
  <1>4. CASE q.op \in {"setRoomState", "moderate", "read", "clear"}
    <2>1. e.msg = d.msg /\ e.rooms = d.rooms
      BY <1>2, <1>4 DEF Changed, Writes
    <2> QED BY <2>1, <1>1, IntegrityKept
  <1>5. CASE q.op = "createRoom"
    <2>1. e.msg = d.msg /\ e.rooms = d.rooms \cup {q.room}
      BY <1>2, <1>5 DEF Changed, Writes
    <2>2. Kept(d.msg, d.rooms \cup {q.room})
      BY <1>1 DEF Kept
    <2> QED BY <2>1, <2>2, IntegrityKept
  <1>6. CASE q.op = "deleteRoom"
    <2>1. e.msg = Without(d.msg, V) /\ e.rooms = d.rooms \ {q.room}
      BY <1>2, <1>6 DEF Changed, Writes
    <2>2. V = InRoom(d, q.room)
      BY <1>0, <1>6, VictimsEach DEF Changed
    <2>3. \A i \in DOMAIN d.msg \ V : d.msg[i].room \in d.rooms \ {q.room}
      BY <2>2, <1>1 DEF InRoom, Kept
    <2>4. Kept(Without(d.msg, V), d.rooms \ {q.room})
      BY <2>3, <1>1, RemovalKeeps
    <2> QED BY <2>1, <2>4, IntegrityKept
  <1>7. CASE q.op = "retain"
    <2>1. e.msg = Without(d.msg, V) /\ e.rooms = d.rooms
      BY <1>2, <1>7 DEF Changed, Writes
    <2>2. \A i \in DOMAIN d.msg \ V : d.msg[i].room \in d.rooms
      BY <1>1 DEF Kept
    <2>3. Kept(Without(d.msg, V), d.rooms)
      BY <2>2, <1>1, RemovalKeeps
    <2> QED BY <2>1, <2>3, IntegrityKept
  <1>8. CASE q.op = "create"
    <2>1. e.msg = Without(Inserted(d, q), V) /\ e.rooms = d.rooms
      BY <1>2, <1>8 DEF Changed, Writes
    <2>2. ~Replayed(d, q) /\ ParentAllows(d, q) /\ q.room \in d.rooms
      <3>1. Writable(d, q) /\ ParentAllows(d, q) /\ ~Replayed(d, q)
        BY <1>0, <1>3, <1>8, RoomAllowsEach, RowAllowsEach, ChangesEach
      <3> QED BY <3>1 DEF Writable
    <2>3. /\ Kept(Inserted(d, q), d.rooms)
          /\ \A i \in DOMAIN Inserted(d, q) : Inserted(d, q)[i] \in Row
      BY <2>2, <1>0, <1>1, InsertionKeeps
    <2>4. \A i \in DOMAIN Inserted(d, q) \ V : Inserted(d, q)[i].room \in d.rooms
      BY <2>3 DEF Kept
    <2>5. Kept(Without(Inserted(d, q), V), d.rooms)
      BY <2>3, <2>4, RemovalKeeps
    <2> QED BY <2>1, <2>5, IntegrityKept
  <1>9. CASE q.op \in Rewrites
    <2>1. e.msg = Edited(d, q) /\ e.rooms = d.rooms
      BY <1>2, <1>9 DEF Changed, Writes, Rewrites
    <2>2. q.op # "delete" => Live(d, q)
      BY <1>0, <1>3, <1>9, RowAllowsEach DEF Rewrites
    <2>3. Kept(Edited(d, q), d.rooms)
      BY <2>2, <1>0, <1>1, <1>9, EditKeeps
    <2> QED BY <2>1, <2>3, IntegrityKept
  <1> QED BY <1>0, <1>4, <1>5, <1>6, <1>7, <1>8, <1>9 DEF Operations, Rewrites

\* A set of numbers has a least element.
LEMMA Least ==
    ASSUME NEW n \in Nat, NEW S \in SUBSET (1..n), S # {}
    PROVE  \E i \in S : \A j \in S : i <= j
  <1> DEFINE T == {n + 1 - i : i \in S}
  <1>1. T \in SUBSET (1..n) /\ T # {}
    <2>1. \A i \in S : n + 1 - i \in 1..n
      OBVIOUS
    <2> QED BY <2>1
  <1>2. PICK k \in T : \A j \in T : j <= k
    <2> HIDE DEF T
    <2> QED BY <1>1, Greatest
  <1>3. PICK i \in S : k = n + 1 - i
    BY <1>2
  <1>4. \A j \in S : i <= j
    <2> TAKE j \in S
    <2>1. n + 1 - j <= k
      BY <1>2
    <2> QED BY <2>1, <1>3
  <1> QED BY <1>4

\* What is left when all but the newest n messages are trimmed is at most n.
LEMMA BeyondCap ==
    ASSUME NEW m \in Nat, NEW S \in SUBSET (1..m), NEW n \in Nat
    PROVE  /\ IsFiniteSet(S \ Beyond(S, n))
           /\ Cardinality(S \ Beyond(S, n)) <= n
  <1> DEFINE T == S \ Beyond(S, n)
             Above(i) == {j \in S : j > i}
  <1>1. IsFiniteSet(S)
    <2>1. IsFiniteSet(1..m)
      BY FS_Interval
    <2> QED BY <2>1, FS_Subset
  <1>2. IsFiniteSet(T)
    BY <1>1, FS_Subset
  <1>3. \A i \in S : IsFiniteSet(Above(i)) /\ Cardinality(Above(i)) \in Nat
    BY <1>1, FS_Subset, FS_CardinalityType
  <1>4. \A i \in T : i \in S /\ ~(Cardinality(Above(i)) >= n)
    BY DEF Beyond
  <1>t. T \in SUBSET (1..m)
    OBVIOUS
  <1>5. CASE T = {}
    BY <1>2, <1>5, FS_EmptySet
  <1>6. CASE T # {}
    <2>1. PICK i \in T : \A j \in T : i <= j
      <3> HIDE DEF T
      <3> QED BY <1>t, <1>6, Least
    <2>2. IsFiniteSet(Above(i)) /\ Cardinality(Above(i)) \in Nat /\ Cardinality(Above(i)) < n
      BY <1>3, <1>4, <2>1
    <2>3. T \subseteq Above(i) \cup {i}
      <3> SUFFICES ASSUME NEW j \in T, j # i PROVE j \in Above(i)
        OBVIOUS
      <3>1. i <= j /\ i \in Int /\ j \in Int /\ j \in S
        BY <1>t, <2>1
      <3>2. j > i
        BY <3>1
      <3> QED BY <3>1, <3>2
    <2> HIDE DEF T, Above
    <2>4. /\ IsFiniteSet(Above(i) \cup {i})
          /\ Cardinality(Above(i) \cup {i}) <= Cardinality(Above(i)) + 1
          /\ Cardinality(Above(i) \cup {i}) \in Nat
      <3>1. /\ IsFiniteSet(Above(i) \cup {i})
            /\ Cardinality(Above(i) \cup {i}) = IF i \in Above(i) THEN Cardinality(Above(i))
                                                                   ELSE Cardinality(Above(i)) + 1
        BY <2>2, FS_AddElement
      <3> QED BY <3>1, <2>2
    <2>5. Cardinality(T) <= Cardinality(Above(i) \cup {i}) /\ Cardinality(T) \in Nat
      BY <1>2, <2>3, <2>4, FS_Subset, FS_CardinalityType
    <2> QED BY <1>2, <2>2, <2>4, <2>5 DEF T
  <1> QED BY <1>5, <1>6

-----------------------------------------------------------------------------
(* The caps on stored messages.                                            *)

\* The caps on stored messages, of a room and of the database.
Capped(d) ==
    /\ Cardinality(DOMAIN d.msg) <= MaxStored
    /\ \A r \in Rooms : Cardinality(InRoom(d, r)) <= MaxPerRoom

\* There are finitely many messages.
LEMMA StoredFinite ==
    ASSUME NEW d, IsDatabase(d)
    PROVE  /\ IsFiniteSet(DOMAIN d.msg) /\ Cardinality(DOMAIN d.msg) \in Nat
           /\ \A r : IsFiniteSet(InRoom(d, r)) /\ Cardinality(InRoom(d, r)) \in Nat
  <1>1. IsFiniteSet(DOMAIN d.msg)
    <2>1. d.last \in Int
      BY ConstantsAssumption DEF IsDatabase
    <2>2. IsFiniteSet(1..d.last)
      BY <2>1, FS_Interval
    <2> QED BY <2>2, FS_Subset DEF IsDatabase
  <1>2. \A r : IsFiniteSet(InRoom(d, r))
    BY <1>1, FS_Subset DEF InRoom
  <1> QED BY <1>1, <1>2, FS_CardinalityType

\* With fewer messages the caps still hold.
LEMMA FewerStored ==
    ASSUME NEW d, NEW e, IsDatabase(d), Capped(d),
           DOMAIN e.msg \subseteq DOMAIN d.msg,
           \A i \in DOMAIN e.msg : e.msg[i].room = d.msg[i].room
    PROVE  Capped(e)
  <1>1. /\ IsFiniteSet(DOMAIN d.msg) /\ Cardinality(DOMAIN d.msg) \in Nat
        /\ \A r : IsFiniteSet(InRoom(d, r)) /\ Cardinality(InRoom(d, r)) \in Nat
    BY StoredFinite
  <1>2. MaxStored \in Nat /\ MaxPerRoom \in Nat
    BY ConstantsAssumption
  <1>3. \A r : InRoom(e, r) \subseteq InRoom(d, r)
    BY DEF InRoom
  <1>4. /\ IsFiniteSet(DOMAIN e.msg)
        /\ Cardinality(DOMAIN e.msg) <= Cardinality(DOMAIN d.msg)
        /\ Cardinality(DOMAIN e.msg) \in Nat
    BY <1>1, FS_Subset, FS_CardinalityType
  <1>5. \A r \in Rooms : /\ Cardinality(InRoom(e, r)) <= Cardinality(InRoom(d, r))
                         /\ Cardinality(InRoom(e, r)) \in Nat
    BY <1>1, <1>3, FS_Subset, FS_CardinalityType
  <1> QED BY <1>1, <1>2, <1>4, <1>5 DEF Capped

\* A creation trims what would exceed either cap.
LEMMA TrimmedCaps ==
    ASSUME NEW d, NEW e, NEW q \in Request, IsDatabase(d), Capped(d), d.last < MaxIds,
           e.msg = Without(Inserted(d, q), Trimmed(d, q))
    PROVE  Capped(e)
  <1> DEFINE new   == d.last + 1
             aged  == {i \in DOMAIN d.msg : i <= q.cut}
             S     == (InRoom(d, q.room) \cup {new}) \ aged
             room  == Beyond(S, MaxPerRoom)
             U     == (DOMAIN d.msg \cup {new}) \ (aged \cup room)
             total == Beyond(U, MaxStored)
  <1>1. Trimmed(d, q) = aged \cup room \cup total
    BY DEF Trimmed
  <1>2. /\ MaxStored \in Nat /\ MaxPerRoom \in Nat /\ d.last \in Nat /\ new \in Nat
        /\ DOMAIN d.msg \subseteq 1..d.last /\ q.room \in Rooms
        /\ \A i \in DOMAIN d.msg : d.msg[i] \in Row
    BY ConstantsAssumption DEF IsDatabase, Request
  <1>3. S \in SUBSET (1..new) /\ U \in SUBSET (1..new)
    <2>1. DOMAIN d.msg \subseteq 1..new /\ new \in 1..new
      BY <1>2
    <2>2. InRoom(d, q.room) \subseteq DOMAIN d.msg
      BY DEF InRoom
    <2> HIDE DEF new, aged, room
    <2> QED BY <2>1, <2>2
  <1>4. DOMAIN e.msg = (DOMAIN d.msg \cup {new}) \ (aged \cup room \cup total)
    <2>1. DOMAIN Inserted(d, q) = DOMAIN d.msg \cup {new}
      BY DEF Inserted
    <2>2. DOMAIN e.msg = DOMAIN Inserted(d, q) \ Trimmed(d, q)
      BY DomainWithout
    <2> QED BY ONLY <2>1, <2>2, <1>1
  <1>5. \A i \in DOMAIN e.msg : e.msg[i].room = IF i = new THEN q.room ELSE d.msg[i].room
    <2> TAKE i \in DOMAIN e.msg
    <2> DEFINE ins == Inserted(d, q)
    <2>1. i \in DOMAIN ins \ Trimmed(d, q)
      BY DomainWithout
    <2>2. /\ ins[i] = (IF i = new THEN NewRow(q) ELSE d.msg[i])
          /\ i # new => i \in DOMAIN d.msg
      BY <2>1 DEF Inserted
    <2>3. NewRow(q) \in Row /\ NewRow(q).room = q.room
      BY NewRowTyped DEF NewRow
    <2>4. ins[i] \in Row
      BY <2>2, <2>3, <1>2
    <2> HIDE DEF ins, new
    <2>5. Without(ins, Trimmed(d, q))[i].room = ins[i].room
      BY <2>1, <2>4, RowsWithout
    <2>6. e.msg[i].room = ins[i].room
      BY <2>5 DEF ins
    <2> QED BY <2>2, <2>3, <2>6
  <1>6. /\ IsFiniteSet(S \ room) /\ Cardinality(S \ room) <= MaxPerRoom
        /\ IsFiniteSet(U \ total) /\ Cardinality(U \ total) <= MaxStored
    BY ONLY <1>2, <1>3, BeyondCap
  <1>7. DOMAIN e.msg \subseteq U \ total
    BY <1>4
  <1>8. InRoom(e, q.room) \subseteq S \ room
    BY <1>4, <1>5 DEF InRoom
  <1>9. \A r \in Rooms \ {q.room} : InRoom(e, r) \subseteq InRoom(d, r)
    BY <1>4, <1>5 DEF InRoom
  <1> HIDE DEF S, U, room, total, aged, new
  <1>10. Cardinality(DOMAIN e.msg) <= MaxStored
    <2>1. /\ Cardinality(DOMAIN e.msg) <= Cardinality(U \ total)
          /\ Cardinality(DOMAIN e.msg) \in Nat /\ Cardinality(U \ total) \in Nat
      BY <1>6, <1>7, FS_Subset, FS_CardinalityType
    <2> QED BY <2>1, <1>2, <1>6
  <1>11. Cardinality(InRoom(e, q.room)) <= MaxPerRoom
    <2>1. /\ Cardinality(InRoom(e, q.room)) <= Cardinality(S \ room)
          /\ Cardinality(InRoom(e, q.room)) \in Nat /\ Cardinality(S \ room) \in Nat
      BY <1>6, <1>8, FS_Subset, FS_CardinalityType
    <2> QED BY <2>1, <1>2, <1>6
  <1>12. ASSUME NEW r \in Rooms, r # q.room
         PROVE  Cardinality(InRoom(e, r)) <= MaxPerRoom
    <2>1. InRoom(e, r) \subseteq InRoom(d, r)
      BY <1>9, <1>12
    <2>2. /\ IsFiniteSet(InRoom(d, r)) /\ Cardinality(InRoom(d, r)) \in Nat
          /\ Cardinality(InRoom(d, r)) <= MaxPerRoom
      BY StoredFinite DEF Capped
    <2>3. /\ Cardinality(InRoom(e, r)) <= Cardinality(InRoom(d, r))
          /\ Cardinality(InRoom(e, r)) \in Nat
      BY <2>1, <2>2, FS_Subset, FS_CardinalityType
    <2> QED BY <2>2, <2>3, <1>2
  <1> QED BY <1>10, <1>11, <1>12 DEF Capped

\* Every operation keeps the caps.
LEMMA CapsStep ==
    ASSUME NEW d, NEW e, NEW q \in Requests, NEW V, NEW pos, IsDatabase(d), Capped(d),
           Changed(e, d, q, V, pos)
    PROVE  Capped(e)
  <1>0. q \in Request /\ q.op \in Operations
    BY RequestTyped
  <1>1. \A i \in DOMAIN d.msg : d.msg[i] \in Row
    BY DEF IsDatabase
  <1>2. \A rooms, flags, msg, last, control, cursor :
            Database(rooms, flags, msg, last, control, cursor).msg = msg
    BY DEF Database
  <1>3. CASE q.op \in {"setRoomState", "moderate", "read", "clear", "createRoom"}
    <2>1. e.msg = d.msg
      BY <1>2, <1>3 DEF Changed, Writes
    <2> QED BY <2>1, FewerStored
  <1>4. CASE q.op \in {"deleteRoom", "retain"}
    <2>1. e.msg = Without(d.msg, V)
      BY <1>2, <1>4 DEF Changed, Writes
    <2>2. DOMAIN e.msg = DOMAIN d.msg \ V
      BY <2>1, DomainWithout
    <2>3. \A i \in DOMAIN e.msg : e.msg[i].room = d.msg[i].room
      BY <2>1, <2>2, <1>1, RowsWithout
    <2> QED BY <2>2, <2>3, FewerStored
  <1>5. CASE q.op = "create"
    <2>1. e.msg = Without(Inserted(d, q), V) /\ d.last < MaxIds
      BY <1>2, <1>5 DEF Changed, Writes
    <2>2. V = Trimmed(d, q)
      BY <1>0, <1>5, VictimsEach DEF Changed
    <2> QED BY <2>1, <2>2, <1>0, TrimmedCaps
  <1>6. CASE q.op \in Rewrites
    <2>1. e.msg = Edited(d, q)
      BY <1>2, <1>6 DEF Changed, Writes, Rewrites
    <2>2. DOMAIN e.msg = DOMAIN d.msg
      BY <2>1 DEF Edited
    <2>3. \A i \in DOMAIN e.msg : e.msg[i].room = d.msg[i].room
      <3> TAKE i \in DOMAIN e.msg
      <3> DEFINE new == Rewritten(d.msg[i], q)
      <3>1. e.msg[i] = IF i = q.msg THEN new ELSE d.msg[i]
        BY <2>1, <2>2 DEF Edited
      <3>2. new.room = d.msg[i].room
        BY <2>2, <1>0, <1>1, <1>6, RowsRewritten DEF Rewrites
      <3> HIDE DEF new
      <3> QED BY <3>1, <3>2
    <2> QED BY <2>2, <2>3, FewerStored
  <1> QED BY <1>0, <1>3, <1>4, <1>5, <1>6 DEF Operations, Rewrites

\* Every step of RoomStore keeps integrity,
LEMMA IntegrityNext ==
    ASSUME StoreInv, Integrity(committed), [Next]_vars
    PROVE  Integrity(committed)'
  <1>1. StoreInv' /\ (Store!Next \/ committed' = committed) /\ IsDatabase(committed)
    BY StepKeeps DEF StoreInv
  <1>2. CASE committed'.msg = committed.msg /\ committed'.rooms = committed.rooms
    BY <1>2, IntegrityKept
  <1>3. ASSUME NEW q \in Requests, NEW V, NEW pos, Changed(committed', committed, q, V, pos)
        PROVE  Integrity(committed)'
    BY <1>1, <1>3, IntegrityStep
  <1> QED BY <1>1, <1>2, <1>3, StoreChanges

\* ... and the caps.
LEMMA CapsNext ==
    ASSUME StoreInv, Capped(committed), [Next]_vars
    PROVE  Capped(committed)'
  <1>1. StoreInv' /\ (Store!Next \/ committed' = committed) /\ IsDatabase(committed)
    BY StepKeeps DEF StoreInv
  <1>2. CASE committed'.msg = committed.msg /\ committed'.rooms = committed.rooms
    BY <1>1, <1>2, FewerStored
  <1>3. ASSUME NEW q \in Requests, NEW V, NEW pos, Changed(committed', committed, q, V, pos)
        PROVE  Capped(committed)'
    BY <1>1, <1>3, CapsStep
  <1> QED BY <1>1, <1>2, <1>3, StoreChanges

\* Client message ids stay unique in a room, threads one level deep, tombstones
\* bare, and no message outlives its room, whatever the limits: the checks of
\* create_message, delete_message and delete_room are made under locks that keep
\* them true until the commit (store.py, postgres_store.py).
THEOREM IntegrityStays == Spec => []Integrity(committed)
  <1>1. Init => StoreInv /\ Integrity(committed)
    BY InitKeeps, ConstantsAssumption DEF Init
  <1>2. StoreInv /\ Integrity(committed) /\ [Next]_vars => StoreInv' /\ Integrity(committed)'
    BY StepKeeps, IntegrityNext
  <1> QED BY <1>1, <1>2, PTL DEF Spec

\* Whatever is served concurrently, client message ids stay unique in a room,
\* threads stay one level deep, tombstones stay bare, no message outlives its
\* room, and create_message keeps the stored messages within
\* max_messages_per_room and max_total_messages.  The caps are those of a
\* database that was within them at the start: lowering a limit trims nothing
\* before the next message.
THEOREM StoreStaysSound ==
    ASSUME \A d \in Initial : Capped(d)
    PROVE  Spec => []StoreSound
  <1>1. Init => StoreInv /\ Integrity(committed) /\ Capped(committed)
    BY InitKeeps, ConstantsAssumption DEF Init
  <1>2. StoreInv /\ Integrity(committed) /\ Capped(committed) /\ [Next]_vars
        => StoreInv' /\ Integrity(committed)' /\ Capped(committed)'
    BY StepKeeps, IntegrityNext, CapsNext
  <1>3. Integrity(committed) /\ Capped(committed) => StoreSound
    BY DEF StoreSound, Capped
  <1> QED BY <1>1, <1>2, <1>3, PTL DEF Spec

-----------------------------------------------------------------------------
(* What a commit leaves of every message, and its event.                   *)

\* Two rows that a subscriber cannot tell apart: a parent may be detached.
Looks(a, b) ==
    /\ a.room = b.room /\ a.text = b.text /\ a.reacts = b.reacts
    /\ a.pin = b.pin /\ a.deleted = b.deleted

\* The messages after operation q removes V.
Stored(d, q, V) ==
    IF q.op = "create" THEN (DOMAIN d.msg \cup {d.last + 1}) \ V
    ELSE IF q.op \in {"retain", "deleteRoom"} THEN DOMAIN d.msg \ V
    ELSE DOMAIN d.msg

\* Message i after operation q, up to its parent.
Wrote(d, q, i) ==
    IF i \notin DOMAIN d.msg THEN NewRow(q)
    ELSE IF q.op \in Rewrites /\ i = q.msg THEN Rewritten(d.msg[i], q)
    ELSE d.msg[i]

\* ... and that have the same event image.
LEMMA ImageLooks ==
    ASSUME NEW a, NEW b, Looks(a, b)
    PROVE  Image(a) = Image(b)
  BY Zenon DEF Looks, Image

\* What an operation leaves of every row.
LEMMA RowAfter ==
    ASSUME NEW d, NEW e, NEW q \in Request, NEW V, NEW pos, IsDatabase(d), Writes(e, d, q, V, pos)
    PROVE  /\ DOMAIN e.msg = Stored(d, q, V)
           /\ \A i \in DOMAIN e.msg : Looks(e.msg[i], Wrote(d, q, i))
  <1>1. /\ q.op \in Operations /\ d.last \in Nat /\ DOMAIN d.msg \subseteq 1..d.last
        /\ \A i \in DOMAIN d.msg : d.msg[i] \in Row
    BY ConstantsAssumption DEF IsDatabase, Request
  <1>2. \A rooms, flags, msg, last, control, cursor :
            Database(rooms, flags, msg, last, control, cursor).msg = msg
    BY DEF Database
  <1>3. CASE q.op \in {"setRoomState", "moderate", "read", "clear", "createRoom"}
    <2>1. e.msg = d.msg
      BY <1>2, <1>3 DEF Writes
    <2> QED BY <2>1, <1>3 DEF Stored, Wrote, Looks, Rewrites
  <1>4. CASE q.op \in {"deleteRoom", "retain"}
    <2>1. e.msg = Without(d.msg, V)
      BY <1>2, <1>4 DEF Writes
    <2>2. DOMAIN e.msg = DOMAIN d.msg \ V
      BY <2>1, DomainWithout
    <2>3. \A i \in DOMAIN e.msg : Looks(e.msg[i], d.msg[i])
      BY <2>1, <2>2, <1>1, RowsWithout DEF Looks
    <2> QED BY <2>2, <2>3, <1>4 DEF Stored, Wrote, Rewrites
  <1>5. CASE q.op = "create"
    <2> DEFINE ins == Inserted(d, q)
    <2>1. e.msg = Without(ins, V)
      BY <1>2, <1>5 DEF Writes
    <2>2. /\ DOMAIN ins = DOMAIN d.msg \cup {d.last + 1}
          /\ \A i \in DOMAIN ins : ins[i] = IF i \in DOMAIN d.msg THEN d.msg[i] ELSE NewRow(q)
      BY <1>1 DEF Inserted
    <2> HIDE DEF ins
    <2>3. \A i \in DOMAIN ins : ins[i] \in Row
      BY <2>2, <1>1, NewRowTyped
    <2>4. DOMAIN e.msg = DOMAIN ins \ V
      BY <2>1, DomainWithout
    <2>5. \A i \in DOMAIN e.msg : Looks(e.msg[i], ins[i])
      BY <2>1, <2>3, <2>4, RowsWithout DEF Looks
    <2> QED BY <2>2, <2>4, <2>5, <1>5 DEF Stored, Wrote, Rewrites
  <1>6. CASE q.op \in Rewrites
    <2>1. e.msg = Edited(d, q)
      BY <1>2, <1>6 DEF Writes, Rewrites
    <2>2. /\ DOMAIN e.msg = DOMAIN d.msg
          /\ \A i \in DOMAIN e.msg : e.msg[i] = IF i = q.msg THEN Rewritten(d.msg[i], q) ELSE d.msg[i]
      BY <2>1 DEF Edited
    <2> QED BY <2>2, <1>6 DEF Stored, Wrote, Looks, Rewrites
  <1> QED BY <1>1, <1>3, <1>4, <1>5, <1>6 DEF Operations, Rewrites

\* The event of a rewrite does not depend on the parent.
LEMMA RewrittenLooks ==
    ASSUME NEW a \in Row, NEW b \in Row, Looks(a, b), NEW q \in Request, q.op \in Rewrites
    PROVE  Looks(Rewritten(a, q), Rewritten(b, q))
  <1>1. CASE q.op = "update"
    <2>1. \A row : Rewritten(row, q) = [row EXCEPT !.text = q.text]
      BY <1>1, Zenon DEF Rewritten
    <2> QED BY <2>1 DEF Row, Looks
  <1>2. CASE q.op = "delete"
    <2>1. \A row : Rewritten(row, q) = Tombstone(row)
      BY <1>2, Zenon DEF Rewritten
    <2>2. \A row \in Row : /\ Tombstone(row).deleted = TRUE /\ Tombstone(row).text = None
                           /\ Tombstone(row).reacts = {} /\ Tombstone(row).pin = None
                           /\ Tombstone(row).room = row.room
      BY DEF Tombstone, Row
    <2>3. Looks(Tombstone(a), Tombstone(b))
      BY <2>2 DEF Looks
    <2> QED BY <2>1, <2>3
  <1>3. CASE q.op = "react"
    <2> DEFINE x(row) == IF q.on THEN row.reacts \cup {<<q.by, q.emoji>>}
                                 ELSE row.reacts \ {<<q.by, q.emoji>>}
    <2>1. \A row : Rewritten(row, q) = [row EXCEPT !.reacts = x(row)]
      BY <1>3, Zenon DEF Rewritten
    <2>2. x(a) = x(b)
      BY DEF Looks
    <2> HIDE DEF x
    <2> QED BY <2>1, <2>2 DEF Row, Looks
  <1>4. CASE q.op = "pin"
    <2> DEFINE x == IF q.on THEN q.by ELSE None
    <2>1. \A row : Rewritten(row, q) = [row EXCEPT !.pin = x]
      BY <1>4, Zenon DEF Rewritten
    <2> HIDE DEF x
    <2> QED BY <2>1 DEF Row, Looks
  <1> QED BY <1>1, <1>2, <1>3, <1>4 DEF Rewrites

\* EventImage, operation by operation.
LEMMA PictureEach ==
    ASSUME NEW d, NEW q
    PROVE  /\ q.op = "create" => EventImage(d, q) = Image(NewRow(q))
           /\ q.op \in Rewrites => EventImage(d, q) = Image(Rewritten(d.msg[q.msg], q))
           /\ q.op \notin Rewrites \cup {"create"} => EventImage(d, q) = None
  <1>1. q.op = "create" => EventImage(d, q) = Image(NewRow(q))
    BY Zenon DEF EventImage
  <1>2. q.op \in Rewrites => EventImage(d, q) = Image(Rewritten(d.msg[q.msg], q))
    BY Zenon DEF EventImage, Rewrites
  <1>3. q.op \notin Rewrites \cup {"create"} => EventImage(d, q) = None
    BY Zenon DEF EventImage, Rewrites
  <1> QED BY <1>1, <1>2, <1>3

\* Retention never trims the message it makes room for.
LEMMA NewestStays ==
    ASSUME NEW d, NEW q \in Request, IsDatabase(d)
    PROVE  d.last + 1 \notin Trimmed(d, q)
  <1> DEFINE new   == d.last + 1
             aged  == {i \in DOMAIN d.msg : i <= q.cut}
             S     == (InRoom(d, q.room) \cup {new}) \ aged
             room  == Beyond(S, MaxPerRoom)
             U     == (DOMAIN d.msg \cup {new}) \ (aged \cup room)
             total == Beyond(U, MaxStored)
  <1>1. Trimmed(d, q) = aged \cup room \cup total
    BY DEF Trimmed
  <1>2. /\ MaxStored \in Nat /\ MaxStored > 0 /\ MaxPerRoom \in Nat /\ MaxPerRoom > 0
        /\ d.last \in Nat /\ DOMAIN d.msg \subseteq 1..d.last
    BY ConstantsAssumption DEF IsDatabase
  <1>3. new \notin aged /\ \A i \in DOMAIN d.msg : ~(i > new)
    BY <1>2
  <1>4. \A i \in S \cup U : i \in DOMAIN d.msg \cup {new}
    BY DEF InRoom
  <1>5. ~(new > new)
    BY <1>2
  <1> HIDE DEF new, aged
  <1>6. {j \in S : j > new} = {} /\ {j \in U : j > new} = {}
    <2> HIDE DEF S, U
    <2> QED BY <1>3, <1>4, <1>5
  <1>7. Cardinality({}) = 0
    BY FS_EmptySet
  <1> HIDE DEF S, U
  <1>8. new \notin room /\ new \notin total
    BY <1>2, <1>6, <1>7 DEF Beyond
  <1> QED BY <1>1, <1>3, <1>8 DEF new

-----------------------------------------------------------------------------
(* The scrub of retained events and the locks it runs under.               *)

\* The messages of which a transaction scrubs the retained events.
ScrubOf(t) == IF t.q.op = "delete" THEN {t.q.msg} ELSE t.victims

\* Past its scrub a transaction has found every retained event of theirs.
Scrubs(l, t) == Passed(t, "scrub") => \A x \in l : x[2] \in ScrubOf(t) => x \in t.scrubbed

\* Past its row lock a rewrite has the event of the row as it will write it.
Pictures(d, t) ==
    /\ t.q.op \in Rewrites /\ Passed(t, "msg") => t.image = EventImage(d, t.q)
    /\ t.q.op \notin Rewrites => t.image = None

\* The inductive invariant of ErasedFromLog.
ErasedInv ==
    /\ ErasedFromLog
    /\ backend # "postgres" => log = {}
    /\ backend = "postgres" => \A p \in Active : Scrubs(log, tx[p]) /\ Pictures(committed, tx[p])

\* What is locked before a scrub, and what scrubs.
LEMMA ScrubOrder ==
    ASSUME NEW t, t.q.op \in Operations, OnTrack(t)
    PROVE  /\ Passed(t, "scrub") =>
                /\ t.q.op \in {"create", "delete", "retain", "deleteRoom"} /\ Passed(t, "cap")
                /\ t.q.op \in {"create", "retain"} => Passed(t, "rows")
                /\ t.q.op = "delete" => Passed(t, "msg")
                /\ t.q.op = "deleteRoom" => Passed(t, "room")
           /\ t.todo = <<>> /\ t.q.op \in {"create", "delete", "retain", "deleteRoom"} => Passed(t, "scrub")
  <1> DEFINE St == Stages(t.q)
             k == Position(t)
  <1>1. Table(t.q, St) /\ k \in 0..Len(St) /\ Len(St) \in Nat
    BY StagesEach, StageOrder, PassedOrder DEF Ordered
  <1>2. t.todo = <<>> => k = Len(St)
    <2>1. t.todo = <<>> => Len(t.todo) = 0
      OBVIOUS
    <2>2. k = Len(St) - Len(t.todo)
      BY DEF Position
    <2> HIDE DEF k, St
    <2> QED BY <1>1, <2>1, <2>2
  <1> HIDE DEF St, k
  <1>3. \A s : Passed(t, s) <=> \E j \in 1..k : St[j] = s
    BY DEF Passed, St, k
  <1>4. CASE t.q.op = "create"
    <2>1. /\ Len(St) = 7 /\ St[2] = "cap" /\ St[4] = "rows" /\ St[5] = "scrub"
          /\ \A j \in 1..7 : St[j] = "scrub" => j = 5
      BY <1>1, <1>4 DEF Table
    <2>2. Passed(t, "scrub") => k >= 5
      BY <1>1, <1>3, <2>1
    <2> QED BY <1>1, <1>2, <1>3, <1>4, <2>1, <2>2
  <1>5. CASE t.q.op = "delete"
    <2>1. /\ Len(St) = 6 /\ St[2] = "cap" /\ St[3] = "msg" /\ St[4] = "scrub"
          /\ \A j \in 1..6 : St[j] = "scrub" => j = 4
      BY <1>1, <1>5 DEF Table
    <2>2. Passed(t, "scrub") => k >= 4
      BY <1>1, <1>3, <2>1
    <2> QED BY <1>1, <1>2, <1>3, <1>5, <2>1, <2>2
  <1>6. CASE t.q.op = "retain"
    <2>1. /\ Len(St) = 5 /\ St[1] = "cap" /\ St[2] = "rows" /\ St[3] = "scrub"
          /\ \A j \in 1..5 : St[j] = "scrub" => j = 3
      BY <1>1, <1>6 DEF Table
    <2>2. Passed(t, "scrub") => k >= 3
      BY <1>1, <1>3, <2>1
    <2> QED BY <1>1, <1>2, <1>3, <1>6, <2>1, <2>2
  <1>7. CASE t.q.op = "deleteRoom"
    <2>1. /\ Len(St) = 6 /\ St[1] = "room" /\ St[2] = "cap" /\ St[3] = "scrub"
          /\ \A j \in 1..6 : St[j] = "scrub" => j = 3
      BY <1>1, <1>7 DEF Table
    <2>2. Passed(t, "scrub") => k >= 3
      BY <1>1, <1>3, <2>1
    <2> QED BY <1>1, <1>2, <1>3, <1>7, <2>1, <2>2
  <1>8. CASE t.q.op \notin {"create", "delete", "retain", "deleteRoom"}
    <2>1. Len(St) <= 5 /\ \A j \in 1..Len(St) : St[j] # "scrub"
      <3>1. CASE t.q.op = "update"
        <4>1. St = <<"room", "cap", "msg", "audit", "webhook">>
          BY <1>1, <3>1, Zenon DEF Table
        <4> QED BY ONLY <4>1
      <3>2. CASE t.q.op = "react"
        <4>1. St = <<"room", "msg", "webhook">>
          BY <1>1, <3>2, Zenon DEF Table
        <4> QED BY ONLY <4>1
      <3>3. CASE t.q.op = "pin"
        <4>1. St = <<"room", "msg", "audit", "webhook">>
          BY <1>1, <3>3, Zenon DEF Table
        <4> QED BY ONLY <4>1
      <3>4. CASE t.q.op = "moderate"
        <4>1. St = <<"room", "audit", "webhook">>
          BY <1>1, <3>4, Zenon DEF Table
        <4> QED BY ONLY <4>1
      <3>5. CASE t.q.op = "createRoom"
        <4>1. St = <<"roomcap", "room", "audit">>
          BY <1>1, <3>5, Zenon DEF Table
        <4> QED BY ONLY <4>1
      <3>6. CASE t.q.op = "setRoomState"
        <4>1. St = <<"room", "audit">>
          BY <1>1, <3>6, Zenon DEF Table
        <4> QED BY ONLY <4>1
      <3>7. CASE t.q.op \in {"read", "clear"}
        <4>1. St = <<"room">>
          BY <1>1, <3>7, Zenon DEF Table
        <4> QED BY ONLY <4>1
      <3> QED BY <1>8, <3>1, <3>2, <3>3, <3>4, <3>5, <3>6, <3>7 DEF Operations
    <2> QED BY <1>1, <1>3, <1>8, <2>1
  <1> QED BY <1>4, <1>5, <1>6, <1>7, <1>8

\* The event read under a row lock is still true after another commit.
LEMMA PicturesStand ==
    ASSUME NEW d, NEW e, NEW L, NEW t, Stands(d, e, L, t), OnTrack(t), Promise(d, t), Pictures(d, t)
    PROVE  Pictures(e, t)
  <1> DEFINE q == t.q
             i == q.msg
  <1> SUFFICES ASSUME q.op \in Rewrites, Passed(t, "msg")
               PROVE  EventImage(e, q) = EventImage(d, q)
    BY DEF Pictures
  <1>1. q \in Request /\ q.op \in Operations
    BY RequestTyped DEF Stands
  <1>2. RowPromise(d, t)
    BY DEF Promise
  <1>3. Target(d, q)
    BY <1>1, <1>2, RowAllowsEach DEF RowPromise, Rewrites, Live
  <1>4. i \in DOMAIN d.msg /\ Lock("msg", i) \in t.held
    BY <1>2, <1>3 DEF RowPromise, Target, InRoom, Stands, IsDatabase
  <1>5. d.msg[i] \in Row /\ e.msg[i] \in Row /\ Looks(e.msg[i], d.msg[i])
    BY <1>4, SameRow DEF Looks
  <1>6. Image(Rewritten(e.msg[i], q)) = Image(Rewritten(d.msg[i], q))
    BY <1>1, <1>5, RewrittenLooks, ImageLooks
  <1> QED BY <1>6, PictureEach

\* It depends on the messages only.
LEMMA SameMessages ==
    ASSUME NEW d, NEW e, e.msg = d.msg, NEW t, Pictures(d, t)
    PROVE  Pictures(e, t)
  BY PictureEach DEF Pictures

\* What the locks of a transaction have promised it when it commits.
LEMMA CommitFacts ==
    ASSUME StoreInv, NEW p \in Procs, Commit(p)
    PROVE  LET t == tx[p]
               q == t.q
               d == committed
           IN  /\ p \in Active /\ backend = "postgres" /\ backend' = backend
               /\ tx' = [tx EXCEPT ![p] = None]
               /\ IsDatabase(d) /\ IsDatabase(d') /\ Writes(d', d, q, t.victims, t.pos)
               /\ Moves(d, d', t.held)
               /\ t.q \in Requests /\ t.q \in Request /\ t.q.op \in Operations
               /\ OnTrack(t) /\ Promise(d, t) /\ t.todo = <<>>
               /\ q.op # "retain" => Lock("room", q.room) \in t.held
               /\ q.op \in {"create", "update", "delete", "retain", "deleteRoom"} =>
                     Lock("cap", None) \in t.held /\ t.victims = Victims(d, q)
               /\ q.op \in Rewrites =>
                     /\ q.msg \in DOMAIN d.msg /\ d.msg[q.msg].room = q.room
                     /\ Lock("msg", q.msg) \in t.held
                     /\ Passed(t, "msg")
                     /\ q.op # "delete" => ~d.msg[q.msg].deleted
  <1> DEFINE t == tx[p]
             q == t.q
             d == committed
  <1>1. /\ p \in Active /\ t.todo = <<>> /\ backend = "postgres" /\ backend' = backend
        /\ d' = Effect(d, q, t.victims, t.pos)
        /\ tx' = [tx EXCEPT ![p] = None]
    BY DEF Commit, Active, Finish
  <1>2. /\ IsTransaction(t) /\ IsDatabase(d)
        /\ OnTrack(t) /\ Promise(d, t)
        /\ q \in Requests /\ q \in Request /\ q.op \in Operations /\ t.pos \in Positions
    BY <1>1, RequestTyped DEF StoreInv, Transactions, IsTransaction
  <1>3. t.todo \notin {<<"resume">>, <<"tell">>}
    BY <1>2, OnTrackApart DEF LocalSteps
  <1>4. q.op = "create" => committed.last < MaxIds
    BY <1>1, <1>3, RoomForMore
  <1>5. Covers(t.held, d, q, t.victims)
    BY <1>1, <1>2, <1>4, CommitStep
  <1>6. IsDatabase(d') /\ Moves(d, d', t.held) /\ Writes(d', d, q, t.victims, t.pos)
    BY <1>1, <1>2, <1>4, <1>5, EffectTyped, EffectMoves, Effects
  <1>7. /\ q.op # "retain" => RoomPromise(d, t)
        /\ q.op \in {"create", "update", "delete", "retain", "deleteRoom"} => CapPromise(d, t)
        /\ q.op \in Rewrites => Passed(t, "msg") /\ RowPromise(d, t)
    BY <1>1, <1>2, AllStages DEF Promise, Rewrites
  <1>8. q.op \in Rewrites =>
          /\ q.msg \in DOMAIN d.msg /\ d.msg[q.msg].room = q.room
          /\ q.op # "delete" => ~d.msg[q.msg].deleted
    BY <1>2, <1>7, RowAllowsEach DEF RowPromise, Rewrites, Live, Target, InRoom
  <1>9. q.op \in Rewrites => Lock("msg", q.msg) \in t.held
    BY <1>5 DEF Covers, Rewrites
  <1> QED BY <1>1, <1>2, <1>6, <1>7, <1>8, <1>9 DEF RoomPromise, CapPromise

-----------------------------------------------------------------------------
(* Every action keeps the log clean.                                       *)

\* One transaction moves, the log and the messages do not.
LEMMA ErasedKept ==
    ASSUME StoreInv, ErasedInv, NEW p \in Procs, NEW t, tx' = [tx EXCEPT ![p] = t],
           log' = log, committed'.msg = committed.msg, backend' = backend,
           t # None /\ backend = "postgres" => Scrubs(log, t) /\ Pictures(committed, t)
    PROVE  ErasedInv'
  <1>1. tx'[p] = t /\ \A o \in Procs \ {p} : tx'[o] = tx[o]
    BY DEF StoreInv, Transactions
  <1>2. \A o \in Active' : o # p => o \in Active /\ tx'[o] = tx[o]
    BY <1>1 DEF Active
  <1>3. backend = "postgres" => \A o \in Active' : Scrubs(log, tx'[o]) /\ Pictures(committed, tx'[o])
    BY <1>1, <1>2 DEF ErasedInv, Active
  <1>4. \A o \in Active' : Pictures(committed, tx'[o]) => Pictures(committed', tx'[o])
    BY SameMessages
  <1> QED BY <1>3, <1>4 DEF ErasedInv, ErasedFromLog

\* No transaction moves, nor the log, nor the messages.
LEMMA ErasedUnmoved ==
    ASSUME StoreInv, ErasedInv, tx' = tx, log' = log, committed'.msg = committed.msg, backend' = backend
    PROVE  ErasedInv'
  <1>1. Active' = Active
    BY DEF Active
  <1>2. \A o \in Active : Pictures(committed, tx[o]) => Pictures(committed', tx[o])
    BY SameMessages
  <1> QED BY <1>1, <1>2 DEF ErasedInv, ErasedFromLog

\* A scrub finds all there is to find; later statements lose nothing of it.
LEMMA StatementErases ==
    ASSUME StoreInv, ErasedInv, NEW p \in Procs, Statement(p)
    PROVE  ErasedInv'
  <1> DEFINE t == tx[p]
             s == Head(t.todo)
             V == Chosen(t)
  <1>1. /\ backend = "postgres" /\ p \in Active /\ t.todo # <<>> /\ backend' = backend
        /\ Finish(p) \/ \E u : Proceeds(p, u)
        /\ log' = log /\ committed' = committed
    BY StatementShape DEF Statement
  <1>2. /\ OnTrack(t) /\ Promise(committed, t) /\ t.q.op \in Operations
        /\ Scrubs(log, t) /\ Pictures(committed, t)
    BY <1>1, RequestTyped DEF StoreInv, Transactions, IsTransaction, ErasedInv
  <1>3. CASE Finish(p)
    BY <1>1, <1>3, ErasedKept DEF Finish
  <1>4. ASSUME NEW u, Proceeds(p, u)
        PROVE  ErasedInv'
    <2>1. /\ tx' = [tx EXCEPT ![p] = u] /\ u.q = t.q /\ u.todo = Rest(t, V) /\ u.victims = V
          /\ u.image = (IF s = "msg" THEN EventImage(committed, t.q) ELSE t.image)
          /\ u.scrubbed = (IF s = "scrub" THEN Scrubbed(t) ELSE t.scrubbed)
      BY <1>4 DEF Proceeds
    <2>2. V = IF s \in {"cap", "parent"} THEN Victims(committed, t.q) ELSE t.victims
      BY DEF Chosen
    <2> HIDE DEF V
    <2>3. \A x : Passed(u, x) =>
                 \/ Passed(t, x) \/ x = s
                 \/ x \in {"rows", "scrub", "audit"} /\ V = {} /\ t.q.op = "create"
      BY <1>1, <1>2, <2>1, RestOnTrack
    <2>4. s = "msg" => t.q.op \in Rewrites
      BY <1>1, <1>2, HeadOrder
    <2> HIDE DEF t, s
    <2>5. Pictures(committed, u)
      BY <1>2, <2>1, <2>3, <2>4 DEF Pictures
    <2>6. ASSUME Passed(u, "scrub"), NEW x \in log, x[2] \in ScrubOf(u)
          PROVE  x \in u.scrubbed
      <3>1. CASE s = "scrub"
        BY <2>1, <2>2, <2>6, <3>1 DEF ScrubOf, Scrubbed
      <3>2. CASE s # "scrub" /\ Passed(t, "scrub")
        <4>1. V = t.victims
          BY <1>2, <2>2, <3>2, ScrubOrder DEF Promise, CapPromise
        <4> QED BY <1>2, <2>1, <2>6, <3>2, <4>1 DEF ScrubOf, Scrubs
      <3>3. CASE V = {} /\ t.q.op = "create"
        BY <2>1, <2>6, <3>3 DEF ScrubOf
      <3> QED BY <2>3, <2>6, <3>1, <3>2, <3>3
    <2>7. Scrubs(log, u)
      BY <2>6 DEF Scrubs
    <2> QED BY <1>1, <2>1, <2>5, <2>7, ErasedKept
  <1> QED BY <1>1, <1>3, <1>4

\* A row lock adds no event.
LEMMA LockRowErases ==
    ASSUME StoreInv, ErasedInv, NEW p \in Procs, LockRow(p)
    PROVE  ErasedInv'
  <1>1. /\ backend = "postgres" /\ p \in Active /\ backend' = backend
        /\ log' = log /\ committed' = committed
    BY LockRowShape DEF LockRow
  <1>2. PICK l : Locked(p, Granted(tx[p], {l}), l)
    BY LockRowShape
  <1> DEFINE t == tx[p]
             u == Granted(t, {l})
  <1>3. Scrubs(log, t) /\ Pictures(committed, t)
    BY <1>1 DEF ErasedInv
  <1>4. /\ tx' = [tx EXCEPT ![p] = u]
        /\ u.q = t.q /\ u.todo = t.todo /\ u.victims = t.victims
        /\ u.image = t.image /\ u.scrubbed = t.scrubbed
    BY <1>2 DEF Locked
  <1> HIDE DEF t, u
  <1>5. \A s : Passed(u, s) <=> Passed(t, s)
    BY <1>4 DEF Passed, Position
  <1>6. Scrubs(log, u) /\ Pictures(committed, u)
    BY <1>3, <1>4, <1>5 DEF Scrubs, ScrubOf, Pictures
  <1> QED BY <1>1, <1>4, <1>6, ErasedKept

\* A commit takes the events of what it erases away, and nobody else adds one:
\* the event of message i is appended under a lock the scrub of i also needs.
LEMMA CommitErases ==
    ASSUME StoreInv, ErasedInv, NEW p \in Procs, Commit(p)
    PROVE  ErasedInv'
  <1> DEFINE t == tx[p]
             q == t.q
             d == committed
             e == committed'
             id == EventId(d, q)
             image == IF q.op = "create" THEN Image(NewRow(q)) ELSE t.image
             N == IF image = None \/ image.deleted THEN {} ELSE {<<t.n, id>>}
  <1>1. /\ p \in Active /\ backend = "postgres" /\ backend' = backend
        /\ tx' = [tx EXCEPT ![p] = None]
        /\ IsDatabase(d) /\ IsDatabase(e) /\ Writes(e, d, q, t.victims, t.pos)
        /\ Moves(d, e, t.held)
        /\ q \in Requests /\ q \in Request /\ q.op \in Operations
        /\ OnTrack(t) /\ Promise(d, t) /\ t.todo = <<>>
    BY CommitFacts
  <1>2. /\ q.op # "retain" => Lock("room", q.room) \in t.held
        /\ q.op \in {"create", "update", "delete", "retain", "deleteRoom"} =>
              Lock("cap", None) \in t.held /\ t.victims = Victims(d, q)
        /\ q.op \in Rewrites =>
              /\ q.msg \in DOMAIN d.msg /\ d.msg[q.msg].room = q.room
              /\ Lock("msg", q.msg) \in t.held
              /\ Passed(t, "msg")
              /\ q.op # "delete" => ~d.msg[q.msg].deleted
    BY CommitFacts
  <1>3. log' = (log \ t.scrubbed) \cup N
    BY DEF Commit
  <1>4. Scrubs(log, t) /\ Pictures(d, t) /\ ErasedFromLog
    BY <1>1 DEF ErasedInv
  <1>5. \A i \in DOMAIN d.msg : d.msg[i] \in Row
    BY <1>1 DEF IsDatabase
  <1>6. /\ DOMAIN e.msg = Stored(d, q, t.victims)
        /\ \A i \in DOMAIN e.msg : Looks(e.msg[i], Wrote(d, q, i))
    BY <1>1, RowAfter
  <1> DEFINE M == \A x \in N : /\ x[2] = id
                               /\ q.op \in {"create", "update", "react", "pin"}
  <1>7. M
    <2>1. CASE q.op = "delete"
      <3>1. image = Image(Rewritten(d.msg[q.msg], q))
        BY <1>2, <1>4, <2>1, PictureEach DEF Pictures, Rewrites
      <3>2. Rewritten(d.msg[q.msg], q).deleted = TRUE
        BY <1>1, <1>2, <1>5, <2>1, RewriteOf DEF Rewrites
      <3>3. \A row : Image(row).deleted = row.deleted
        BY DEF Image
      <3>4. image.deleted = TRUE
        BY Zenon, <3>1, <3>2, <3>3
      <3> QED BY <3>4
    <2>2. CASE q.op \notin Rewrites \cup {"create"}
      <3>1. image = None
        BY <1>4, <2>2 DEF Pictures
      <3> QED BY <3>1
    <2>3. CASE q.op \in {"create", "update", "react", "pin"}
      <3> HIDE DEF image, id
      <3> QED BY <2>3
    <2> QED BY <1>1, <2>1, <2>2, <2>3 DEF Rewrites
  <1> HIDE DEF N, id, image, t, d, e
  <1>8. ASSUME NEW x \in log', x \notin N
        PROVE  x[2] \in DOMAIN e.msg /\ ~e.msg[x[2]].deleted
    <2> DEFINE i == x[2]
    <2>1. x \in log /\ x \notin t.scrubbed /\ i \in DOMAIN d.msg /\ ~d.msg[i].deleted
      BY <1>3, <1>4, <1>8 DEF ErasedFromLog, d
    <2>2. q.op \in {"create", "delete", "retain", "deleteRoom"} => i \notin ScrubOf(t)
      BY <1>1, <1>4, <2>1, ScrubOrder DEF Scrubs
    <2>3. i \in DOMAIN e.msg
      BY <1>6, <2>1, <2>2 DEF ScrubOf, Stored
    <2>4. Wrote(d, q, i).deleted = d.msg[i].deleted
      <3>1. CASE q.op \in Rewrites /\ i = q.msg
        <4>1. q.op # "delete"
          BY <2>2, <3>1 DEF ScrubOf
        <4> QED BY <1>1, <1>5, <2>1, <3>1, <4>1, RewriteOf DEF Wrote
      <3>2. CASE ~(q.op \in Rewrites /\ i = q.msg)
        BY <2>1, <3>2 DEF Wrote
      <3> QED BY <3>1, <3>2
    <2> QED BY <1>6, <2>1, <2>3, <2>4 DEF Looks
  <1>9. ASSUME NEW x \in N
        PROVE  x[2] \in DOMAIN e.msg /\ ~e.msg[x[2]].deleted
    <2>1. CASE q.op = "create"
      <3>1. x[2] = d.last + 1
        BY <1>7, <1>9, <2>1 DEF id, EventId
      <3>2. d.last + 1 \notin t.victims /\ d.last + 1 \notin DOMAIN d.msg
        <4>1. t.victims = Trimmed(d, q)
          BY <1>1, <1>2, <2>1, VictimsEach
        <4>2. d.last + 1 \notin Trimmed(d, q)
          BY <1>1, NewestStays
        <4>3. d.last \in Int /\ DOMAIN d.msg \subseteq 1..d.last
          BY <1>1, ConstantsAssumption DEF IsDatabase
        <4> QED BY <4>1, <4>2, <4>3
      <3>3. x[2] \in DOMAIN e.msg /\ Wrote(d, q, x[2]) = NewRow(q)
        BY <1>6, <2>1, <3>1, <3>2 DEF Stored, Wrote
      <3>4. NewRow(q).deleted = FALSE
        BY DEF NewRow
      <3> QED BY <1>6, <3>3, <3>4 DEF Looks
    <2>2. CASE q.op \in {"update", "react", "pin"}
      <3>1. x[2] = q.msg
        BY <1>7, <1>9, <2>2 DEF id, EventId
      <3>2. q.msg \in DOMAIN e.msg /\ Wrote(d, q, q.msg) = Rewritten(d.msg[q.msg], q)
        BY <1>2, <1>6, <2>2 DEF Stored, Wrote, Rewrites
      <3>3. Rewritten(d.msg[q.msg], q).deleted = d.msg[q.msg].deleted
        BY <1>1, <1>2, <1>5, <2>2, RewriteOf DEF Rewrites
      <3> QED BY <1>2, <1>6, <2>2, <3>1, <3>2, <3>3 DEF Looks, Rewrites
    <2> QED BY <1>7, <1>9, <2>1, <2>2
  <1>10. ErasedFromLog'
    BY <1>8, <1>9 DEF ErasedFromLog, e
  <1>11. ASSUME NEW o \in Active, o # p
         PROVE  Scrubs(log', tx[o]) /\ Pictures(e, tx[o])
    <2> DEFINE u == tx[o]
    <2>1. /\ IsTransaction(u) /\ u.q \in Requests /\ u.q.op \in Operations
          /\ OnTrack(u) /\ Promise(d, u) /\ u.held \cap t.held = {}
          /\ Scrubs(log, u) /\ Pictures(d, u)
      BY <1>1, <1>11, RequestTyped DEF StoreInv, Transactions, IsTransaction, ErasedInv, t, d
    <2> HIDE DEF u
    <2>2. Pictures(e, u)
      <3>1. Stands(d, e, t.held, u)
        BY <1>1, <2>1 DEF Stands
      <3> QED BY <2>1, <3>1, PicturesStand
    <2>3. ASSUME Passed(u, "scrub"), NEW x \in N, x[2] \in ScrubOf(u)
          PROVE  FALSE
      <3>1. /\ Passed(u, "cap") /\ u.q.op \in {"create", "delete", "retain", "deleteRoom"}
            /\ Lock("cap", None) \in u.held /\ u.victims = Victims(d, u.q)
            /\ u.q.op \in {"create", "retain"} => RowsPromise(d, u)
            /\ u.q.op = "delete" => RowPromise(d, u)
            /\ u.q.op = "deleteRoom" => Lock("room", u.q.room) \in u.held
        BY <2>1, <2>3, ScrubOrder DEF Promise, CapPromise, RoomPromise
      <3>2. q.op \in {"react", "pin"}
        BY <1>2, <1>7, <2>1, <2>3, <3>1
      <3>3. /\ x[2] = q.msg /\ q.msg \in DOMAIN d.msg /\ d.msg[q.msg].room = q.room
            /\ Lock("msg", q.msg) \notin u.held /\ Lock("room", q.room) \notin u.held
        BY <1>2, <1>7, <2>1, <2>3, <3>2 DEF Rewrites, id, EventId
      <3>4. CASE u.q.op \in {"create", "retain"}
        BY <2>3, <3>1, <3>3, <3>4 DEF ScrubOf, RowsPromise
      <3>5. CASE u.q.op = "delete"
        <4>1. q.msg = u.q.msg /\ q.msg # 0
          BY <1>1, <2>3, <3>3, <3>5 DEF ScrubOf, IsDatabase
        <4> QED BY <3>1, <3>3, <3>5, <4>1 DEF RowPromise
      <3>6. CASE u.q.op = "deleteRoom"
        <4>1. q.msg \in InRoom(d, u.q.room)
          BY <2>1, <2>3, <3>1, <3>3, <3>6, VictimsEach DEF ScrubOf
        <4>2. q.room = u.q.room
          BY <3>3, <4>1 DEF InRoom
        <4> QED BY <3>1, <3>3, <3>6, <4>2
      <3> QED BY <3>1, <3>4, <3>5, <3>6
    <2>4. Scrubs(log', u)
      BY <1>3, <2>1, <2>3 DEF Scrubs
    <2> QED BY <2>2, <2>4 DEF u
  <1>12. \A o \in Active' : o \in Active /\ o # p /\ tx'[o] = tx[o]
    BY <1>1 DEF StoreInv, Transactions, Active
  <1>13. \A o \in Active' : Scrubs(log', tx'[o]) /\ Pictures(e, tx'[o])
    BY <1>11, <1>12
  <1> QED BY <1>1, <1>10, <1>13 DEF ErasedInv, e

\* Every step keeps the invariant.
LEMMA ErasedStep ==
    ASSUME StoreInv, ErasedInv, [Next]_vars
    PROVE  ErasedInv'
  <1>1. ASSUME NEW p \in Procs, NEW q \in Requests, Begin(p, q) PROVE ErasedInv'
    <2> DEFINE t == [q |-> q, n |-> served + 1, held |-> {}, victims |-> {},
                     pos |-> 0, scrubbed |-> {}, id |-> 0, image |-> None,
                     todo |-> IF backend = "postgres" THEN Stages(q) ELSE <<"local">>]
    <2>1. /\ tx' = [tx EXCEPT ![p] = t]
          /\ committed' = committed /\ backend' = backend /\ log' = log
      BY <1>1 DEF Begin
    <2>2. t.q = q /\ t.image = None /\ (backend = "postgres" => t.todo = Stages(q))
      OBVIOUS
    <2> HIDE DEF t
    <2>3. backend = "postgres" => \A s : ~Passed(t, s)
      BY <2>2, RequestTyped, StartOnTrack
    <2>4. backend = "postgres" => Scrubs(log, t) /\ Pictures(committed, t)
      BY <2>2, <2>3 DEF Scrubs, Pictures
    <2> QED BY <2>1, <2>4, ErasedKept
  <1>2. ASSUME NEW p \in Procs, Abort(p) PROVE ErasedInv'
    BY <1>2, ErasedKept DEF Abort, Finish
  <1>3. ASSUME NEW p \in Procs, backend # "postgres", log' = log, backend' = backend
        PROVE  ErasedInv'
    BY <1>3 DEF ErasedInv, ErasedFromLog
  <1>4. ASSUME NEW p \in Procs, CommitLocal(p) \/ Resume(p) \/ Tell(p) PROVE ErasedInv'
    <2>1. p \in Active /\ tx[p].todo \in LocalSteps /\ log' = log /\ backend' = backend
      BY <1>4 DEF CommitLocal, Resume, Tell, Active, LocalSteps
    <2>2. backend # "postgres"
      BY <2>1, OnTrackApart, RequestTyped DEF StoreInv, Transactions, IsTransaction
    <2> QED BY <2>1, <2>2, <1>3
  <1>5. ASSUME NEW p \in Procs, LockRow(p) PROVE ErasedInv'
    BY <1>5, LockRowErases
  <1>6. ASSUME NEW p \in Procs, Statement(p) PROVE ErasedInv'
    BY <1>6, StatementErases
  <1>7. ASSUME NEW p \in Procs, Commit(p) PROVE ErasedInv'
    BY <1>7, CommitErases
  <1>8. ASSUME NEW r \in Rooms, Reload(r) PROVE ErasedInv'
    BY <1>8, ErasedUnmoved DEF Reload
  <1>9. ASSUME NEW r \in Rooms, NEW m \in Members, Lapse(r, m) PROVE ErasedInv'
    <2>1. PICK x : committed' = [committed EXCEPT !.control = x]
      BY <1>9 DEF Lapse
    <2>2. committed'.msg = committed.msg
      BY <2>1, Fields DEF StoreInv, Database
    <2> QED BY <1>9, <2>2, ErasedUnmoved DEF Lapse
  <1>10. ASSUME UNCHANGED vars PROVE ErasedInv'
    BY <1>10, ErasedUnmoved DEF vars
  <1> QED BY <1>1, <1>2, <1>4, <1>5, <1>6, <1>7, <1>8, <1>9, <1>10 DEF Next

\* At the start the retained events are those of the stored messages.
LEMMA ErasedInit ==
    ASSUME Init
    PROVE  StoreInv /\ ErasedInv
  <1>1. StoreInv /\ Active = {}
    BY InitKeeps DEF Init, Active
  <1>2. ErasedFromLog /\ (backend # "postgres" => log = {})
    BY DEF Init, ErasedFromLog
  <1> QED BY <1>1, <1>2 DEF ErasedInv

\* PostgreSQL: once delete_message, retention or delete_room has committed, no
\* retained event holds the text of a message it erased, whatever was edited,
\* reacted to or pinned meanwhile: the scrub of the realtime log
\* (postgres_store.py) runs under the row locks an edit of the same message
\* needs, so none can append its event between the scrub and the commit.
THEOREM ErasedStaysErased == Spec => []ErasedFromLog
  <1>1. Init => StoreInv /\ ErasedInv
    BY ErasedInit
  <1>2. StoreInv /\ ErasedInv /\ [Next]_vars => StoreInv' /\ ErasedInv'
    BY StepKeeps, ErasedStep
  <1>3. ErasedInv => ErasedFromLog
    BY DEF ErasedInv
  <1> QED BY <1>1, <1>2, <1>3, PTL DEF Spec

-----------------------------------------------------------------------------
(* What a connected client shows.                                          *)

\* SQLite: the request of p is at this step.
At(p, step) == tx[p] # None /\ tx[p].todo = <<step>>

\* It has committed an event that no client got yet.
Unshown(p) == At(p, "resume") /\ tx[p].image # None

\* What has not been used yet.
Fresh(t) == t.n \in Nat /\ t.held = {} /\ t.victims = {} /\ t.scrubbed = {}

\* A connected client shows message i, or its event is on the way.
Shows(i) ==
    \/ committed.msg[i].room \notin live
    \/ view[i] = Image(committed.msg[i])
    \/ \E p \in Procs : Unshown(p) /\ tx[p].id = i

\* The event on the way is about the message as it is stored, and a handler
\* that suspends first is excepted by typed.
Latest(t) ==
    /\ t.image # None /\ t.id \in DOMAIN committed.msg => t.image = Image(committed.msg[t.id])
    /\ SuspendsFirst(t.q) => t.id \in typed

\* The inductive invariant of Converges.
ShownInv ==
    /\ view = [i \in Ids |-> view[i]] /\ served \in Nat
    /\ \A i \in DOMAIN committed.msg \ typed : Shows(i)
    /\ \A p, o \in Procs : At(p, "resume") /\ At(o, "resume") => p = o
    /\ \A p \in Procs : /\ At(p, "local") => Fresh(tx[p])
                        /\ At(p, "resume") => Latest(tx[p])
                        /\ At(p, "tell") => tx[p].id \in typed

\* One transaction moves, what is stored and shown does not.
LEMMA ShownKept ==
    ASSUME StoreInv, StoreInv', ShownInv, NEW p \in Procs, NEW t, tx' = [tx EXCEPT ![p] = t],
           backend' = backend, committed'.msg = committed.msg, view' = view, live' = live,
           typed' = typed, served' \in Nat, Unshown(p) => tx[p].id \in typed,
           t # None /\ backend # "postgres" =>
              /\ t.todo # <<"resume">>
              /\ t.todo = <<"local">> => Fresh(t)
              /\ t.todo = <<"tell">> => t.id \in typed
    PROVE  ShownInv'
  <1>1. tx'[p] = t /\ \A o \in Procs \ {p} : tx'[o] = tx[o]
    BY DEF StoreInv, Transactions
  <1>2. t # None => /\ t.todo # <<"resume">>
                    /\ t.todo = <<"local">> => Fresh(t)
                    /\ t.todo = <<"tell">> => t.id \in typed
    <2>1. CASE backend = "postgres" /\ t # None
      <3>1. p \in Active' /\ t = tx'[p]
        BY <1>1, <2>1 DEF Active
      <3>2. OnTrack(t) /\ t.q.op \in Operations
        BY <2>1, <3>1, RequestTyped DEF StoreInv, Transactions, IsTransaction
      <3> QED BY <3>2, OnTrackApart DEF LocalSteps
    <2> QED BY <2>1
  <1>3. ASSUME NEW i \in DOMAIN committed.msg \ typed
        PROVE  Shows(i)'
    <2>1. CASE \E o \in Procs : Unshown(o) /\ tx[o].id = i
      <3>1. PICK o \in Procs : Unshown(o) /\ tx[o].id = i
        BY <2>1
      <3>2. o # p
        BY <1>3, <3>1
      <3> QED BY <1>1, <3>1, <3>2 DEF Shows, Unshown, At
    <2> QED BY <1>3, <2>1 DEF ShownInv, Shows
  <1>4. \A o, x \in Procs : At(o, "resume")' /\ At(x, "resume")' => o = x
    BY <1>1, <1>2 DEF ShownInv, At
  <1>5. ASSUME NEW o \in Procs
        PROVE  /\ At(o, "local")' => Fresh(tx'[o])
               /\ At(o, "resume")' => Latest(tx[o])' /\ tx'[o] = tx[o]
               /\ At(o, "tell")' => tx'[o].id \in typed
    <2>1. CASE o = p
      BY <1>1, <1>2, <2>1 DEF At
    <2>2. CASE o # p
      BY <1>1, <2>2 DEF ShownInv, At, Latest
    <2> QED BY <2>1, <2>2
  <1> QED BY <1>3, <1>4, <1>5 DEF ShownInv, Latest

\* The steps of SQLite are taken in SQLite mode only.
LEMMA LocalOnly ==
    ASSUME StoreInv, NEW p \in Active, tx[p].todo \in LocalSteps
    PROVE  backend # "postgres" /\ IsTransaction(tx[p]) /\ tx[p].q \in Request /\ tx[p].q.op \in Operations
  BY OnTrackApart, RequestTyped DEF StoreInv, Transactions, IsTransaction

\* A handler that has the write lock back broadcasts the newest state of its
\* message: nobody else could commit before it.
LEMMA ResumeShows ==
    ASSUME StoreInv, StoreInv', ShownInv, NEW p \in Procs, Resume(p)
    PROVE  ShownInv'
  <1> DEFINE t == tx[p]
  <1>1. /\ p \in Active /\ t.todo = <<"resume">> /\ At(p, "resume")
        /\ committed' = committed /\ backend' = backend /\ typed' = typed /\ served' = served
    BY DEF Resume, Active, At
  <1>2. backend # "postgres" /\ IsTransaction(t) /\ Latest(t)
    BY <1>1, LocalOnly DEF LocalSteps, ShownInv
  <1>3. CASE /\ SuspendsFirst(t.q) /\ UNCHANGED clientVars
             /\ tx' = [tx EXCEPT ![p] = [@ EXCEPT !.todo = <<"tell">>]]
    <2> DEFINE u == [t EXCEPT !.todo = <<"tell">>]
    <2>1. u.id = t.id /\ u.todo = <<"tell">>
      BY <1>2 DEF IsTransaction
    <2>2. tx' = [tx EXCEPT ![p] = u]
      BY <1>3
    <2>3. t.id \in typed
      BY <1>2, <1>3 DEF Latest
    <2>4. "tell" # "resume" /\ "tell" # "local"
      OBVIOUS
    <2>5. u.todo # <<"resume">> /\ u.todo # <<"local">>
      BY <2>1, <2>4
    <2>6. served \in Nat
      BY DEF ShownInv
    <2> HIDE DEF u
    <2> QED BY <1>1, <1>3, <2>1, <2>2, <2>3, <2>5, <2>6, ShownKept DEF clientVars
  <1>4. CASE Told(t.q, t.id, t.image) /\ Finish(p)
    <2>1. tx' = [tx EXCEPT ![p] = None] /\ live' \subseteq live
      BY <1>4 DEF Told, Finish
    <2>2. tx'[p] = None /\ \A o \in Procs \ {p} : tx'[o] = tx[o]
      BY <2>1 DEF StoreInv, Transactions
    <2>3. /\ view' = [i \in Ids |-> view'[i]]
          /\ \A i \in Ids : view'[i] = IF t.image # None /\ i = t.id THEN t.image ELSE view[i]
      <3>1. view = [i \in Ids |-> view[i]]
        BY DEF ShownInv
      <3>2. view' = IF t.image = None THEN view ELSE [view EXCEPT ![t.id] = t.image]
        BY <1>4 DEF Told
      <3> QED BY <3>1, <3>2
    <2>4. DOMAIN committed.msg \subseteq Ids
      BY ConstantsAssumption DEF StoreInv, IsDatabase, Ids
    <2>5. ASSUME NEW i \in DOMAIN committed.msg \ typed
          PROVE  Shows(i)'
      <3>1. CASE committed.msg[i].room \notin live
        BY <1>1, <2>1, <3>1 DEF Shows
      <3>2. CASE view[i] = Image(committed.msg[i])
        BY <1>1, <1>2, <2>3, <2>4, <2>5, <3>2 DEF Shows, Latest
      <3>3. CASE \E o \in Procs : Unshown(o) /\ tx[o].id = i
        <4>1. PICK o \in Procs : Unshown(o) /\ tx[o].id = i
          BY <3>3
        <4>2. o = p
          BY <1>1, <4>1 DEF ShownInv, Unshown
        <4>3. view'[i] = Image(committed.msg[i])
          BY <1>2, <2>3, <2>4, <2>5, <4>1, <4>2 DEF Latest, Unshown
        <4> QED BY <1>1, <4>3 DEF Shows
      <3> QED BY <2>5, <3>1, <3>2, <3>3 DEF ShownInv, Shows
    <2>6. \A s : \A o \in Procs : At(o, s)' => At(o, s) /\ tx'[o] = tx[o]
      BY <2>2 DEF At
    <2> QED BY <1>1, <2>3, <2>5, <2>6 DEF ShownInv, Latest
  <1> QED BY <1>3, <1>4 DEF Resume

\* A handler that let go of the write lock only shows a message of typed.
LEMMA TellShows ==
    ASSUME StoreInv, ShownInv, NEW p \in Procs, Tell(p)
    PROVE  ShownInv'
  <1> DEFINE t == tx[p]
  <1>1. /\ p \in Active /\ At(p, "tell") /\ t.id \in typed /\ ~Unshown(p)
        /\ committed' = committed /\ backend' = backend /\ typed' = typed /\ served' = served
    <2>1. "tell" # "resume"
      OBVIOUS
    <2>2. <<"tell">> # <<"resume">>
      BY <2>1
    <2> QED BY <2>2 DEF Tell, Active, At, Unshown, ShownInv
  <1>2. tx' = [tx EXCEPT ![p] = None] /\ live' \subseteq live
    BY DEF Tell, Told, Finish
  <1>3. tx'[p] = None /\ \A o \in Procs \ {p} : tx'[o] = tx[o]
    BY <1>2 DEF StoreInv, Transactions
  <1>4. /\ view' = [i \in Ids |-> view'[i]]
        /\ \A i \in Ids \ typed : view'[i] = view[i]
    <2>1. view = [i \in Ids |-> view[i]]
      BY DEF ShownInv
    <2>2. view' = IF t.image = None THEN view ELSE [view EXCEPT ![t.id] = t.image]
      BY DEF Tell, Told
    <2> QED BY <1>1, <2>1, <2>2
  <1>5. DOMAIN committed.msg \subseteq Ids
    BY ConstantsAssumption DEF StoreInv, IsDatabase, Ids
  <1>6. \A i \in DOMAIN committed.msg \ typed : Shows(i)'
    <2> TAKE i \in DOMAIN committed.msg \ typed
    <2>1. CASE \E o \in Procs : Unshown(o) /\ tx[o].id = i
      <3>1. PICK o \in Procs : Unshown(o) /\ tx[o].id = i
        BY <2>1
      <3>2. o # p
        BY <1>1, <3>1
      <3> QED BY <1>3, <3>1, <3>2 DEF Shows, Unshown, At
    <2> QED BY <1>1, <1>2, <1>4, <1>5, <2>1 DEF ShownInv, Shows
  <1>7. \A s : \A o \in Procs : At(o, s)' => At(o, s) /\ tx'[o] = tx[o]
    BY <1>3 DEF At
  <1> QED BY <1>1, <1>4, <1>6, <1>7 DEF ShownInv, Latest

\* What is shown of a message changes only in the operation about it, to its
\* event.
LEMMA ImageAfter ==
    ASSUME NEW d, NEW e, NEW q \in Request, NEW V, NEW pos, IsDatabase(d), IsDatabase(e),
           Writes(e, d, q, V, pos), NEW i \in DOMAIN e.msg
    PROVE  LET about == q.op \in Rewrites \cup {"create"} /\ i = EventId(d, q)
           IN  /\ about => EventImage(d, q) = Image(e.msg[i]) /\ EventImage(d, q) # None
               /\ ~about => /\ i \in DOMAIN d.msg /\ e.msg[i].room = d.msg[i].room
                            /\ Image(e.msg[i]) = Image(d.msg[i])
  <1>1. /\ DOMAIN e.msg = Stored(d, q, V)
        /\ Looks(e.msg[i], Wrote(d, q, i))
    BY RowAfter, ZenonT(30)
  <1>2. Image(e.msg[i]) = Image(Wrote(d, q, i)) /\ e.msg[i].room = Wrote(d, q, i).room
    BY <1>1, ImageLooks DEF Looks
  <1>3. e.msg[i] \in Row
    BY DEF IsDatabase
  <1>4. Image(e.msg[i]) # None
    BY <1>3, NoneAssumption
  <1>5. d.last \in Int /\ DOMAIN d.msg \subseteq 1..d.last
    BY ConstantsAssumption DEF IsDatabase
  <1>6. CASE q.op = "create"
    <2>1. EventId(d, q) = d.last + 1 /\ d.last + 1 \notin DOMAIN d.msg
      BY <1>5, <1>6 DEF EventId
    <2>2. i # d.last + 1 => i \in DOMAIN d.msg
      BY <1>1, <1>6 DEF Stored
    <2>3. Wrote(d, q, i) = IF i = d.last + 1 THEN NewRow(q) ELSE d.msg[i]
      BY <1>6, <2>1, <2>2 DEF Wrote, Rewrites
    <2>4. EventImage(d, q) = Image(NewRow(q))
      BY <1>6, PictureEach
    <2> QED BY <1>2, <1>4, <1>6, <2>1, <2>2, <2>3, <2>4
  <1>7. CASE q.op \in Rewrites
    <2>1. EventId(d, q) = q.msg /\ i \in DOMAIN d.msg
      BY <1>1, <1>7 DEF EventId, Stored, Rewrites
    <2>2. Wrote(d, q, i) = IF i = q.msg THEN Rewritten(d.msg[i], q) ELSE d.msg[i]
      BY <1>7, <2>1 DEF Wrote
    <2>3. EventImage(d, q) = Image(Rewritten(d.msg[q.msg], q))
      BY <1>7, PictureEach
    <2> QED BY <1>2, <1>4, <1>7, <2>1, <2>2, <2>3
  <1>8. CASE q.op \notin Rewrites \cup {"create"}
    <2>1. i \in DOMAIN d.msg
      BY <1>1, <1>8 DEF Stored
    <2>2. Wrote(d, q, i) = d.msg[i]
      BY <1>8, <2>1 DEF Wrote
    <2> QED BY <1>2, <1>8, <2>1, <2>2
  <1> QED BY <1>6, <1>7, <1>8

\* A request with an event is still served.
LEMMA AnsweredActive ==
    ASSUME NEW t, IsTransaction(t), Fresh(t), NEW d, IsDatabase(d), t.q \in Request,
           NEW e, IsDatabase(e), NEW V, NEW pos, Writes(e, d, t.q, V, pos),
           t.q.op \in Rewrites \cup {"create"}, EventId(d, t.q) \in DOMAIN e.msg,
           NEW u, u = Answered(t, <<"resume">>, EventId(d, t.q), EventImage(d, t.q))
    PROVE  u # None
  <1> DEFINE id == EventId(d, t.q)
             image == EventImage(d, t.q)
  <1>1. /\ id \in 0..MaxIds
        /\ image \in {Image(row) : row \in Row}
    <2>0. e.msg[id] \in Row
      BY DEF IsDatabase
    <2>1. image = Image(e.msg[id])
      BY ImageAfter
    <2>2. id \in 1..e.last /\ e.last \in 0..MaxIds /\ MaxIds \in Nat
      BY ConstantsAssumption DEF IsDatabase
    <2> HIDE DEF id, image
    <2> QED BY <2>0, <2>1, <2>2
  <1>2. <<"resume">> \in Seq(Steps)
    BY DEF Steps
  <1> HIDE DEF id, image
  <1>3. u = [q |-> t.q, n |-> t.n, held |-> t.held, victims |-> t.victims, pos |-> t.pos,
             scrubbed |-> t.scrubbed, id |-> id, image |-> image, todo |-> <<"resume">>]
    BY LocalFields DEF id, image
  <1> DEFINE H == SUBSET (Steps \X (Rooms \cup Ids \cup {None}))
             D == SUBSET Ids
             S == SUBSET (Nat \X Ids)
             I == {None} \cup {Image(row) : row \in Row}
             W == Seq(Steps)
  <1>4. /\ t.q \in Requests /\ t.n \in Nat /\ t.held \in H /\ t.victims \in D
        /\ t.pos \in Positions /\ t.scrubbed \in S /\ id \in 0..MaxIds /\ image \in I
        /\ <<"resume">> \in W
    BY <1>1, <1>2 DEF IsTransaction, Fresh
  <1>5. Transaction = [q: Requests, n: Nat, held: H, victims: D, pos: Positions, scrubbed: S,
                       id: 0..MaxIds, image: I, todo: W]
    BY DEF Transaction
  <1> HIDE DEF H, D, S, I, W
  <1>6. u \in Transaction
    BY <1>3, <1>4, <1>5
  <1> QED BY <1>6, NoneAssumption

\* A commit of SQLite leaves one event on the way, that of its message.
LEMMA CommitLocalShows ==
    ASSUME StoreInv, StoreInv', ShownInv, NEW p \in Procs, CommitLocal(p)
    PROVE  ShownInv'
  <1> DEFINE t == tx[p]
             q == t.q
             d == committed
             e == committed'
             id == EventId(d, q)
             image == EventImage(d, q)
             V == Victims(d, q)
             pos == ReadPosition(d, q)
             u == Answered(t, <<"resume">>, id, image)
  <1>1. /\ p \in Active /\ t.todo = <<"local">> /\ At(p, "local") /\ ~At(p, "resume")
        /\ backend' = backend /\ view' = view /\ live' = live /\ served' = served
        /\ served \in Nat /\ WriteLockFree(p)
    <2>1. "local" # "resume"
      OBVIOUS
    <2>2. <<"local">> # <<"resume">>
      BY <2>1
    <2> QED BY <2>2 DEF CommitLocal, Active, At, ShownInv, clientVars
  <1>2. /\ backend # "postgres" /\ IsTransaction(t) /\ q \in Request /\ q \in Requests
        /\ q.op \in Operations /\ IsDatabase(d) /\ IsDatabase(e) /\ Fresh(t)
    BY <1>1, LocalOnly DEF LocalSteps, ShownInv, StoreInv, IsTransaction
  <1>3. CASE Finish(p) /\ UNCHANGED <<committed, typed>>
    <2>1. tx' = [tx EXCEPT ![p] = None]
      BY <1>3 DEF Finish
    <2> QED BY <1>1, <1>3, <2>1, ShownKept DEF Unshown
  <1>4. CASE /\ committed' = Effect(d, q, V, pos)
             /\ tx' = [tx EXCEPT ![p] = u]
             /\ typed' = IF q.socket = "typing" THEN typed \cup {d.last + 1} ELSE typed
    <2>1. Writes(e, d, q, V, pos)
      BY <1>2, <1>4, Effects
    <2>2. /\ u.q = q /\ u.id = id /\ u.image = image /\ u.todo = <<"resume">>
      <3> HIDE DEF u, t, id, image
      <3>1. u = [q |-> t.q, n |-> t.n, held |-> t.held, victims |-> t.victims, pos |-> t.pos,
                 scrubbed |-> t.scrubbed, id |-> id, image |-> image, todo |-> <<"resume">>]
        BY <1>2, LocalFields DEF u
      <3> QED BY <3>1
    <2>3. tx'[p] = u /\ \A o \in Procs \ {p} : tx'[o] = tx[o]
      BY <1>4 DEF StoreInv, Transactions
    <2>4. \A o \in Procs \ {p} : ~At(o, "resume")
      BY <1>1 DEF WriteLockFree, Active, At
    <2>5. "resume" # "local" /\ "resume" # "tell"
      OBVIOUS
    <2>6. u.todo # <<"local">> /\ u.todo # <<"tell">>
      BY <2>2, <2>5
    <2>7. \A i \in DOMAIN e.msg :
             /\ q.op \in Rewrites \cup {"create"} /\ i = id => image = Image(e.msg[i]) /\ image # None /\ u # None
             /\ ~(q.op \in Rewrites \cup {"create"} /\ i = id) =>
                   i \in DOMAIN d.msg /\ e.msg[i].room = d.msg[i].room /\ Image(e.msg[i]) = Image(d.msg[i])
      <3> TAKE i \in DOMAIN e.msg
      <3>1. /\ q.op \in Rewrites \cup {"create"} /\ i = id => image = Image(e.msg[i]) /\ image # None
            /\ ~(q.op \in Rewrites \cup {"create"} /\ i = id) =>
                   i \in DOMAIN d.msg /\ e.msg[i].room = d.msg[i].room /\ Image(e.msg[i]) = Image(d.msg[i])
        BY <1>2, <2>1, ImageAfter
      <3>2. q.op \in Rewrites \cup {"create"} /\ i = id => u # None
        BY <1>2, <2>1, AnsweredActive
      <3> QED BY <3>1, <3>2
    <2>8. q.op \notin Rewrites \cup {"create"} => image = None
      BY PictureEach
    <2>9. SuspendsFirst(q) => id \in typed'
      <3>1. SuspendsFirst(q) => q.socket = "typing" /\ q.op = "create"
        BY <1>2, ConstantsAssumption DEF SuspendsFirst
      <3> QED BY <1>4, <3>1 DEF EventId
    <2>10. typed \subseteq typed'
      BY <1>4
    <2> HIDE DEF u, id, image, V, pos, d, e, t
    <2>11. ASSUME NEW i \in DOMAIN e.msg \ typed'
           PROVE  Shows(i)'
      <3>1. CASE q.op \in Rewrites \cup {"create"} /\ i = id
        <4>1. Unshown(p)' /\ tx'[p].id = i
          BY <2>2, <2>3, <2>7, <2>11, <3>1 DEF Unshown, At
        <4> QED BY <4>1 DEF Shows
      <3>2. CASE ~(q.op \in Rewrites \cup {"create"} /\ i = id)
        <4>1. Shows(i) /\ i \in DOMAIN d.msg
          BY <2>7, <2>10, <2>11, <3>2 DEF ShownInv, d
        <4>2. ~\E o \in Procs : Unshown(o)
          BY <1>1, <2>4 DEF Unshown
        <4> QED BY <1>1, <2>7, <2>11, <3>2, <4>1, <4>2 DEF Shows, d, e
      <3> QED BY <3>1, <3>2
    <2>12. \A o, x \in Procs : At(o, "resume")' /\ At(x, "resume")' => o = x
      BY <2>3, <2>4 DEF At
    <2>13. ASSUME NEW o \in Procs
           PROVE  /\ At(o, "local")' => Fresh(tx'[o])
                  /\ At(o, "resume")' => Latest(tx[o])'
                  /\ At(o, "tell")' => tx'[o].id \in typed'
      <3>1. CASE o = p
        <4>1. image # None /\ id \in DOMAIN e.msg => image = Image(e.msg[id])
          BY <2>7, <2>8
        <4>2. ~At(o, "local")' /\ ~At(o, "tell")'
          BY <2>3, <2>6, <3>1 DEF At
        <4>3. Latest(tx[o])'
          BY <2>2, <2>3, <2>9, <3>1, <4>1 DEF Latest, e
        <4> QED BY <4>2, <4>3
      <3>2. CASE o # p
        <4>1. ~At(o, "resume")'
          BY <2>3, <2>4, <3>2 DEF At
        <4> QED BY <2>3, <2>10, <3>2, <4>1 DEF ShownInv, At
      <3> QED BY <3>1, <3>2
    <2> QED BY <1>1, <2>11, <2>12, <2>13 DEF ShownInv, e
  <1>5. \/ Finish(p) /\ UNCHANGED <<committed, typed>>
        \/ /\ committed' = Effect(d, q, V, pos)
           /\ tx' = [tx EXCEPT ![p] = u]
           /\ typed' = IF q.socket = "typing" THEN typed \cup {d.last + 1} ELSE typed
    BY DEF CommitLocal, Answered
  <1> QED BY <1>3, <1>4, <1>5

\* A commit of PostgreSQL shows what it writes.
LEMMA CommitShows ==
    ASSUME StoreInv, StoreInv', ErasedInv, ShownInv, NEW p \in Procs, Commit(p)
    PROVE  ShownInv'
  <1> DEFINE t == tx[p]
             q == t.q
             d == committed
             e == committed'
             id == EventId(d, q)
             image == IF q.op = "create" THEN Image(NewRow(q)) ELSE t.image
  <1>1. /\ p \in Active /\ backend = "postgres" /\ backend' = backend
        /\ tx' = [tx EXCEPT ![p] = None]
        /\ IsDatabase(d) /\ IsDatabase(e) /\ Writes(e, d, q, t.victims, t.pos)
        /\ q \in Request /\ q.op \in Operations
        /\ q.op \in Rewrites => Passed(t, "msg")
    BY CommitFacts
  <1>2. typed' = typed /\ served' = served /\ Told(q, id, image)
    BY DEF Commit
  <1>3. image = EventImage(d, q)
    <2>1. Pictures(d, t)
      BY <1>1 DEF ErasedInv
    <2>2. CASE q.op = "create"
      BY <2>2, PictureEach
    <2>3. CASE q.op # "create"
      BY <1>1, <2>1, <2>3, PictureEach DEF Pictures
    <2> QED BY <2>2, <2>3
  <1>4. \A o \in Procs, s \in {"local", "resume", "tell"} : ~At(o, s) /\ ~At(o, s)'
    <2> TAKE o \in Procs, s \in {"local", "resume", "tell"}
    <2>1. <<s>> \in LocalSteps
      BY DEF LocalSteps
    <2>2. ~At(o, s)
      BY <1>1, <2>1, LocalOnly DEF At, Active
    <2>3. tx'[o] = tx[o] \/ tx'[o] = None
      BY <1>1 DEF StoreInv, Transactions
    <2> QED BY <2>2, <2>3 DEF At
  <1>5. /\ live' \subseteq live
        /\ view' = [i \in Ids |-> view'[i]]
        /\ \A i \in Ids : view'[i] = IF image # None /\ i = id THEN image ELSE view[i]
    <2>1. view = [i \in Ids |-> view[i]]
      BY DEF ShownInv
    <2>2. view' = (IF image = None THEN view ELSE [view EXCEPT ![id] = image]) /\ live' \subseteq live
      BY <1>2 DEF Told
    <2> QED BY <2>1, <2>2
  <1>6. DOMAIN e.msg \subseteq Ids
    BY <1>1, ConstantsAssumption DEF IsDatabase, Ids
  <1>7. q.op \notin Rewrites \cup {"create"} => image = None
    BY <1>3, PictureEach
  <1>8. \A i \in DOMAIN e.msg :
           /\ q.op \in Rewrites \cup {"create"} /\ i = id => image = Image(e.msg[i]) /\ image # None
           /\ ~(q.op \in Rewrites \cup {"create"} /\ i = id) =>
                 i \in DOMAIN d.msg /\ e.msg[i].room = d.msg[i].room /\ Image(e.msg[i]) = Image(d.msg[i])
    BY <1>1, <1>3, ImageAfter
  <1> HIDE DEF t, id, image, d, e
  <1>9. ASSUME NEW i \in DOMAIN e.msg \ typed
        PROVE  Shows(i)'
    <2>1. CASE q.op \in Rewrites \cup {"create"} /\ i = id
      BY <1>5, <1>6, <1>8, <1>9, <2>1 DEF Shows, e
    <2>2. CASE ~(q.op \in Rewrites \cup {"create"} /\ i = id)
      <3>1. Shows(i)
        BY <1>8, <1>9, <2>2 DEF ShownInv, d
      <3>2. ~\E o \in Procs : Unshown(o)
        BY <1>4 DEF Unshown
      <3>3. view'[i] = view[i]
        BY <1>5, <1>6, <1>7, <1>9, <2>2
      <3> QED BY <1>5, <1>8, <1>9, <2>2, <3>1, <3>2, <3>3 DEF Shows, d, e
    <2> QED BY <2>1, <2>2
  <1> QED BY <1>2, <1>4, <1>5, <1>9 DEF ShownInv, e

\* A new socket starts from what is stored.
LEMMA ReloadShows ==
    ASSUME StoreInv, ShownInv, NEW r \in Rooms, Reload(r)
    PROVE  ShownInv'
  <1>1. /\ committed' = committed /\ tx' = tx /\ typed' = typed /\ served' = served
        /\ live' = live \cup {r}
        /\ view' = [i \in Ids |-> IF i \in InRoom(committed, r) THEN Image(committed.msg[i]) ELSE view[i]]
    BY DEF Reload
  <1>2. DOMAIN committed.msg \subseteq Ids
    BY ConstantsAssumption DEF StoreInv, IsDatabase, Ids
  <1>3. ASSUME NEW i \in DOMAIN committed.msg \ typed
        PROVE  Shows(i)'
    <2>1. CASE committed.msg[i].room = r
      BY <1>1, <1>2, <1>3, <2>1 DEF Shows, InRoom
    <2>2. CASE committed.msg[i].room # r
      BY <1>1, <1>2, <1>3, <2>2 DEF ShownInv, Shows, InRoom, Unshown, At
    <2> QED BY <2>1, <2>2
  <1> QED BY <1>1, <1>3 DEF ShownInv, At, Latest

\* Nothing moves.
LEMMA ShownUnmoved ==
    ASSUME ShownInv, tx' = tx, committed'.msg = committed.msg, view' = view, live' = live,
           typed' = typed, served' = served
    PROVE  ShownInv'
  BY DEF ShownInv, Shows, Unshown, At, Latest

\* Every step keeps the invariant.
LEMMA ShownStep ==
    ASSUME StoreInv, StoreInv', ErasedInv, ShownInv, [Next]_vars
    PROVE  ShownInv'
  <1>1. ASSUME NEW p \in Procs, NEW q \in Requests, Begin(p, q) PROVE ShownInv'
    <2> DEFINE t == [q |-> q, n |-> served + 1, held |-> {}, victims |-> {},
                     pos |-> 0, scrubbed |-> {}, id |-> 0, image |-> None,
                     todo |-> IF backend = "postgres" THEN Stages(q) ELSE <<"local">>]
    <2>1. /\ tx' = [tx EXCEPT ![p] = t] /\ ~Unshown(p)
          /\ committed' = committed /\ backend' = backend /\ view' = view /\ live' = live
          /\ typed' = typed /\ served' = served + 1
      BY <1>1 DEF Begin, clientVars, Unshown, At
    <2>2. served' \in Nat /\ Fresh(t) /\ (backend # "postgres" => t.todo = <<"local">>)
      BY <2>1 DEF Fresh, ShownInv
    <2>3. "local" # "resume" /\ "local" # "tell"
      OBVIOUS
    <2>4. <<"local">> # <<"resume">> /\ <<"local">> # <<"tell">>
      BY <2>3
    <2> HIDE DEF t
    <2>5. backend # "postgres" => t.todo # <<"resume">> /\ t.todo # <<"tell">> /\ Fresh(t)
      BY <2>2, <2>4
    <2> QED BY <2>1, <2>2, <2>5, ShownKept
  <1>2. ASSUME NEW p \in Procs, Abort(p) PROVE ShownInv'
    <2>1. tx' = [tx EXCEPT ![p] = None] /\ ~Unshown(p) /\ served' \in Nat
      BY <1>2 DEF Abort, Finish, Unshown, At, ShownInv
    <2> QED BY <1>2, <2>1, ShownKept DEF Abort, clientVars
  <1>3. ASSUME NEW p \in Procs, CommitLocal(p) PROVE ShownInv'
    BY <1>3, CommitLocalShows
  <1>4. ASSUME NEW p \in Procs, Resume(p) PROVE ShownInv'
    BY <1>4, ResumeShows
  <1>5. ASSUME NEW p \in Procs, Tell(p) PROVE ShownInv'
    BY <1>5, TellShows
  <1>6. ASSUME NEW p \in Procs, LockRow(p) \/ Statement(p) PROVE ShownInv'
    <2>1. /\ backend = "postgres" /\ p \in Active /\ backend' = backend
          /\ \E u : tx' = [tx EXCEPT ![p] = u]
      <3>1. CASE LockRow(p)
        BY <3>1, LockRowShape DEF Locked
      <3>2. CASE Statement(p)
        <4>1. Finish(p) \/ \E u : Proceeds(p, u)
          BY <3>2, StatementShape
        <4>2. \E u : tx' = [tx EXCEPT ![p] = u]
          BY <4>1 DEF Finish, Proceeds
        <4> QED BY <3>2, <4>2, StatementShape
      <3> QED BY <1>6, <3>1, <3>2
    <2>2. /\ committed' = committed /\ view' = view /\ live' = live /\ typed' = typed
          /\ served' = served
      BY <1>6 DEF LockRow, Statement, clientVars
    <2>3. ~Unshown(p) /\ served \in Nat
      BY <2>1, LocalOnly DEF Unshown, At, LocalSteps, ShownInv
    <2> QED BY <2>1, <2>2, <2>3, ShownKept
  <1>7. ASSUME NEW p \in Procs, Commit(p) PROVE ShownInv'
    BY <1>7, CommitShows
  <1>8. ASSUME NEW r \in Rooms, Reload(r) PROVE ShownInv'
    BY <1>8, ReloadShows
  <1>9. ASSUME NEW r \in Rooms, NEW m \in Members, Lapse(r, m) PROVE ShownInv'
    <2>1. PICK x : committed' = [committed EXCEPT !.control = x]
      BY <1>9 DEF Lapse
    <2>2. committed'.msg = committed.msg
      BY <2>1, Fields DEF StoreInv, Database
    <2> QED BY <1>9, <2>2, ShownUnmoved DEF Lapse, clientVars
  <1>10. ASSUME UNCHANGED vars PROVE ShownInv'
    BY <1>10, ShownUnmoved DEF vars, clientVars
  <1> QED BY <1>1, <1>2, <1>3, <1>4, <1>5, <1>6, <1>7, <1>8, <1>9, <1>10 DEF Next

\* A connected client shows each message as it is stored as soon as the handlers
\* under way have broadcast, in both modes: SQLite handlers hold the write lock
\* across the broadcast (app.py, store.py), except behind typing.stopped, and
\* PostgreSQL events follow the order of the commits.
THEOREM ClientsConverge == Spec => []Converges
  <1>1. Init => StoreInv /\ ErasedInv /\ ShownInv
    <2> SUFFICES ASSUME Init PROVE ShownInv
      BY ErasedInit
    <2>1. \A s : \A p \in Procs : ~At(p, s)
      BY DEF Init, At
    <2>2. \A i \in DOMAIN committed.msg : view[i] = Image(committed.msg[i])
      <3>1. DOMAIN committed.msg \subseteq Ids
        BY ErasedInit, ConstantsAssumption DEF StoreInv, IsDatabase, Ids
      <3> QED BY <3>1 DEF Init
    <2>3. view = [i \in Ids |-> view[i]] /\ served \in Nat
      BY DEF Init
    <2> QED BY <2>1, <2>2, <2>3 DEF ShownInv, Shows
  <1>2. StoreInv /\ ErasedInv /\ ShownInv /\ [Next]_vars => StoreInv' /\ ErasedInv' /\ ShownInv'
    BY StepKeeps, ErasedStep, ShownStep
  <1>3. ShownInv => Converges
    BY DEF ShownInv, Shows, Unshown, At, Active, Converges
  <1> QED BY <1>1, <1>2, <1>3, PTL DEF Spec

-----------------------------------------------------------------------------
(* The order of the locks.                                                 *)

\* The lock order of postgres_store.py: message rows come after the message
\* capacity lock, audit and webhook locks last.
Rank(kind) ==
    CASE kind = "roomcap" -> 1
      [] kind = "room" -> 2
      [] kind = "cap" -> 3
      [] kind \in {"parent", "msg"} -> 4
      [] kind = "rows" -> 5
      [] kind = "scrub" -> 6
      [] kind = "audit" -> 7
      [] kind = "webhook" -> 8

\* delete_room deletes its rows last, after the audit and webhook locks.
StageLevel(q, s) == IF q.op = "deleteRoom" /\ s = "rows" THEN 9 ELSE Rank(s)

\* How far a transaction is.
Level(t) == IF t.todo = <<>> THEN 10 ELSE StageLevel(t.q, Head(t.todo))

\* The ranks, one equation each.
LEMMA RankEach ==
    /\ Rank("roomcap") = 1 /\ Rank("room") = 2 /\ Rank("cap") = 3 /\ Rank("parent") = 4
    /\ Rank("msg") = 4 /\ Rank("rows") = 5 /\ Rank("scrub") = 6 /\ Rank("audit") = 7
    /\ Rank("webhook") = 8
  <1>1. Rank("roomcap") = 1
    BY DEF Rank
  <1>2. Rank("room") = 2
    BY DEF Rank
  <1>3. Rank("cap") = 3
    BY DEF Rank
  <1>4. Rank("parent") = 4 /\ Rank("msg") = 4
    BY DEF Rank
  <1>5. Rank("rows") = 5
    BY DEF Rank
  <1>6. Rank("scrub") = 6
    BY DEF Rank
  <1>7. Rank("audit") = 7
    BY DEF Rank
  <1>8. Rank("webhook") = 8
    BY DEF Rank
  <1> QED BY <1>1, <1>2, <1>3, <1>4, <1>5, <1>6, <1>7, <1>8

\* Every operation goes up.
LEMMA StagesAscend ==
    ASSUME NEW q, q.op \in Operations
    PROVE  LET St == Stages(q) IN
           \A j \in 1..(Len(St) - 1) : StageLevel(q, St[j]) < StageLevel(q, St[j + 1])
  <1> DEFINE St == Stages(q)
             up == \A j \in 1..(Len(St) - 1) : StageLevel(q, St[j]) < StageLevel(q, St[j + 1])
             R(s) == StageLevel(q, s)
  <1>1. Table(q, St)
    BY StagesEach
  <1>2. /\ R("roomcap") = 1 /\ R("room") = 2 /\ R("cap") = 3 /\ R("parent") = 4
        /\ R("msg") = 4 /\ R("scrub") = 6 /\ R("audit") = 7 /\ R("webhook") = 8
        /\ R("rows") = IF q.op = "deleteRoom" THEN 9 ELSE 5
    BY RankEach DEF StageLevel
  <1>u. up <=> \A j \in 1..(Len(St) - 1) : R(St[j]) < R(St[j + 1])
    OBVIOUS
  <1> SUFFICES up
    OBVIOUS
  <1> HIDE DEF St, up, R
  <1>3. CASE q.op = "create"
    <2>1. St = <<"room", "cap", "parent", "rows", "scrub", "audit", "webhook">>
      BY <1>1, <1>3, Zenon DEF Table
    <2>2. /\ Len(St) = 7 /\ R(St[1]) = 2 /\ R(St[2]) = 3 /\ R(St[3]) = 4 /\ R(St[4]) = 5
          /\ R(St[5]) = 6 /\ R(St[6]) = 7 /\ R(St[7]) = 8
      BY <1>2, <1>3, <2>1
    <2> QED BY ONLY <2>2, <1>u
  <1>4. CASE q.op = "deleteRoom"
    <2>1. St = <<"room", "cap", "scrub", "audit", "webhook", "rows">>
      BY <1>1, <1>4, Zenon DEF Table
    <2>2. /\ Len(St) = 6 /\ R(St[1]) = 2 /\ R(St[2]) = 3 /\ R(St[3]) = 6 /\ R(St[4]) = 7
          /\ R(St[5]) = 8 /\ R(St[6]) = 9
      BY <1>2, <1>4, <2>1
    <2> QED BY ONLY <2>2, <1>u
  <1>5. CASE q.op \in {"update", "delete", "react", "pin"}
    <2>1. CASE q.op = "update"
      <3>1. St = <<"room", "cap", "msg", "audit", "webhook">>
        BY <1>1, <2>1, Zenon DEF Table
      <3>2. /\ Len(St) = 5 /\ R(St[1]) = 2 /\ R(St[2]) = 3 /\ R(St[3]) = 4 /\ R(St[4]) = 7
            /\ R(St[5]) = 8
        BY <1>2, <3>1
      <3> QED BY ONLY <3>2, <1>u
    <2>2. CASE q.op = "delete"
      <3>1. St = <<"room", "cap", "msg", "scrub", "audit", "webhook">>
        BY <1>1, <2>2, Zenon DEF Table
      <3>2. /\ Len(St) = 6 /\ R(St[1]) = 2 /\ R(St[2]) = 3 /\ R(St[3]) = 4 /\ R(St[4]) = 6
            /\ R(St[5]) = 7 /\ R(St[6]) = 8
        BY <1>2, <3>1
      <3> QED BY ONLY <3>2, <1>u
    <2>3. CASE q.op = "react"
      <3>1. St = <<"room", "msg", "webhook">>
        BY <1>1, <2>3, Zenon DEF Table
      <3>2. Len(St) = 3 /\ R(St[1]) = 2 /\ R(St[2]) = 4 /\ R(St[3]) = 8
        BY <1>2, <3>1
      <3> QED BY ONLY <3>2, <1>u
    <2>4. CASE q.op = "pin"
      <3>1. St = <<"room", "msg", "audit", "webhook">>
        BY <1>1, <2>4, Zenon DEF Table
      <3>2. Len(St) = 4 /\ R(St[1]) = 2 /\ R(St[2]) = 4 /\ R(St[3]) = 7 /\ R(St[4]) = 8
        BY <1>2, <3>1
      <3> QED BY ONLY <3>2, <1>u
    <2> QED BY <1>5, <2>1, <2>2, <2>3, <2>4
  <1>6. CASE q.op = "retain"
    <2>1. St = <<"cap", "rows", "scrub", "audit", "webhook">>
      BY <1>1, <1>6, Zenon DEF Table
    <2>2. /\ Len(St) = 5 /\ R(St[1]) = 3 /\ R(St[2]) = 5 /\ R(St[3]) = 6 /\ R(St[4]) = 7
          /\ R(St[5]) = 8
      BY <1>2, <1>6, <2>1
    <2> QED BY ONLY <2>2, <1>u
  <1>7. CASE q.op = "moderate"
    <2>1. St = <<"room", "audit", "webhook">>
      BY <1>1, <1>7, Zenon DEF Table
    <2>2. Len(St) = 3 /\ R(St[1]) = 2 /\ R(St[2]) = 7 /\ R(St[3]) = 8
      BY <1>2, <2>1
    <2> QED BY ONLY <2>2, <1>u
  <1>8. CASE q.op = "createRoom"
    <2>1. St = <<"roomcap", "room", "audit">>
      BY <1>1, <1>8, Zenon DEF Table
    <2>2. Len(St) = 3 /\ R(St[1]) = 1 /\ R(St[2]) = 2 /\ R(St[3]) = 7
      BY <1>2, <2>1
    <2> QED BY ONLY <2>2, <1>u
  <1>9. CASE q.op = "setRoomState"
    <2>1. St = <<"room", "audit">>
      BY <1>1, <1>9, Zenon DEF Table
    <2>2. Len(St) = 2 /\ R(St[1]) = 2 /\ R(St[2]) = 7
      BY <1>2, <2>1
    <2> QED BY ONLY <2>2, <1>u
  <1>10. CASE q.op \in {"read", "clear"}
    <2>1. St = <<"room">>
      BY <1>1, <1>10, Zenon DEF Table
    <2>2. Len(St) = 1
      BY <2>1
    <2> QED BY ONLY <2>2, <1>u
  <1> QED BY <1>3, <1>4, <1>5, <1>6, <1>7, <1>8, <1>9, <1>10 DEF Operations

\* Sequences, by their length.
LEMMA EmptyLength ==
    ASSUME NEW S, NEW w \in Seq(S)
    PROVE  w = <<>> <=> Len(w) = 0
  OBVIOUS

\* The tail of a sequence.
LEMMA TailOf ==
    ASSUME NEW S, NEW w \in Seq(S)
    PROVE  /\ Len(w) = 1 => Tail(w) = <<>>
           /\ Len(w) > 1 => Tail(w) # <<>> /\ Head(Tail(w)) = w[2]
  <1>1. Len(w) > 0 => Tail(w) \in Seq(S) /\ Len(Tail(w)) = Len(w) - 1
    OBVIOUS
  <1>2. Len(w) > 1 => Tail(w)[1] = w[2] /\ Head(Tail(w)) = Tail(w)[1]
    BY <1>1
  <1>3. Len(w) > 0 => (Tail(w) = <<>> <=> Len(Tail(w)) = 0)
    BY <1>1, EmptyLength
  <1> QED BY <1>1, <1>2, <1>3

\* So does every statement.
LEMMA LevelRises ==
    ASSUME NEW t, t.q.op \in Operations, OnTrack(t), t.todo # <<>>,
           NEW V, NEW u, u.q = t.q, u.todo = Rest(t, V)
    PROVE  Level(t) < Level(u)
  <1> DEFINE q == t.q
             St == Stages(q)
             n == Len(t.todo)
             k == Position(t)
  <1>1. Ordered(q, St)
    BY StageOrder
  <1>2. n \in Nat \ {0} /\ n <= Len(St) /\ Len(St) \in Nat
    BY <1>1 DEF OnTrack, Ordered
  <1>3. k = Len(St) - n /\ k \in Nat
    BY <1>2 DEF Position
  <1>4. \A i \in 1..n : t.todo[i] = St[k + i] /\ t.todo[i] \in StageNames
    BY <1>2 DEF OnTrack
  <1>5. Head(t.todo) = St[k + 1] /\ Head(t.todo) \in StageNames
    BY <1>2, <1>4 DEF OnTrack
  <1>6. Level(t) = StageLevel(q, St[k + 1])
    BY <1>5 DEF Level
  <1>7. \A s \in StageNames : StageLevel(q, s) \in 1..9
    BY RankEach DEF StageLevel, StageNames
  <1>8. n > 1 => k + 1 \in 1..(Len(St) - 1) /\ (k + 1) + 1 = k + 2
    <2> HIDE DEF St, n, k
    <2> QED BY <1>2, <1>3
  <1>9. n > 1 => StageLevel(q, St[k + 1]) < StageLevel(q, t.todo[2])
    <2>1. \A j \in 1..(Len(St) - 1) : StageLevel(q, St[j]) < StageLevel(q, St[j + 1])
      BY StagesAscend
    <2>2. n > 1 => t.todo[2] = St[k + 2]
      BY <1>2, <1>4
    <2> HIDE DEF St, n, k
    <2> QED BY <1>8, <2>1, <2>2
  <1>10. CASE t.q.op = "create" /\ V = {} /\ Len(t.todo) > 1 /\ t.todo[2] = "rows"
    <2>1. u.todo = <<"webhook">>
      BY <1>10 DEF Rest
    <2>2. u.todo # <<>> /\ Head(u.todo) = "webhook"
      BY <2>1
    <2>3. Level(u) = 8 /\ StageLevel(q, t.todo[2]) = 5
      BY <1>10, <2>2, RankEach DEF Level, StageLevel
    <2>4. StageLevel(q, St[k + 1]) \in Int
      BY <1>5, <1>7
    <2> HIDE DEF St, n, k
    <2> QED BY <1>6, <1>9, <1>10, <2>3, <2>4 DEF n
  <1>11. CASE ~(t.q.op = "create" /\ V = {} /\ Len(t.todo) > 1 /\ t.todo[2] = "rows")
    <2>1. u.todo = Tail(t.todo)
      BY <1>11 DEF Rest
    <2>0. t.todo \in Seq(StageNames)
      BY DEF OnTrack
    <2>2. CASE n = 1
      <3>1. u.todo = <<>>
        BY <2>0, <2>1, <2>2, TailOf
      <3>2. Level(u) = 10
        BY <3>1 DEF Level
      <3>3. Level(t) \in 1..9
        BY <1>5, <1>6, <1>7
      <3> QED BY <3>2, <3>3
    <2>3. CASE n > 1
      <3>1. u.todo # <<>> /\ Head(u.todo) = t.todo[2]
        BY <2>0, <2>1, <2>3, TailOf
      <3>2. Level(u) = StageLevel(q, t.todo[2])
        BY <3>1 DEF Level
      <3> HIDE DEF St, k, n
      <3> QED BY <1>6, <1>9, <2>3, <3>2
    <2> HIDE DEF St, k, n
    <2> QED BY <1>2, <2>2, <2>3
  <1> QED BY <1>10, <1>11

-----------------------------------------------------------------------------
(* Every lock that is held is below the statement that is next.            *)

\* A transaction holds only locks below the statement it is at; a message lock it
\* holds was taken under the capacity lock, or is the one it rewrites.
LockOrder(t) ==
    \A l \in t.held :
        /\ l[1] \in StageNames /\ Rank(l[1]) < Level(t)
        /\ l[1] = "msg" => \/ Lock("cap", None) \in t.held
                           \/ Passed(t, "msg") /\ l = Lock("msg", t.q.msg)

\* The inductive invariant of NoWaitCycle, with integrity.
LocksInv == backend = "postgres" => \A p \in Active : LockOrder(tx[p])

\* The level of a statement.
LEMMA Levels ==
    ASSUME NEW t, t.q.op \in Operations, OnTrack(t), t.todo # <<>>
    PROVE  LET s == Head(t.todo) IN
           /\ s \in StageNames
           /\ Level(t) = StageLevel(t.q, s) /\ Level(t) \in 1..9
           /\ s = "rows" /\ t.q.op # "deleteRoom" => Level(t) = 5
           /\ s = "rows" /\ t.q.op = "deleteRoom" => Level(t) = 9
           /\ s # "rows" => Level(t) = Rank(s) /\ Level(t) # 5 /\ Level(t) # 9
  BY HeadOrder, RankEach DEF Level, StageLevel, StageNames

\* The locks a statement waits for have its rank, row locks of a DELETE that of a
\* message.
LEMMA WantedRank ==
    ASSUME NEW t, t.q.op \in Operations, OnTrack(t), t.todo # <<>>, NEW l \in Wanted(t, Head(t.todo))
    PROVE  LET s == Head(t.todo) IN
           /\ l[1] \in StageNames
           /\ s = "rows" => l[1] = "msg" /\ \E i \in DOMAIN committed.msg :
                   /\ l = Lock("msg", i)
                   /\ i \in t.victims \/ committed.msg[i].parent \in t.victims
           /\ s \in {"msg", "parent"} => l = Lock("msg", t.q.msg)
           /\ s # "rows" => Rank(l[1]) = Rank(s) /\ s # "scrub" /\ (l[1] = "msg" => s \in {"msg", "parent"})
  <1> DEFINE s == Head(t.todo)
  <1>1. s \in StageNames
    BY HeadOrder
  <1>2. CASE s = "room"
    <2>1. l = Lock("room", t.q.room)
      BY <1>2, WantedEach
    <2> QED BY <1>2, <2>1 DEF Lock, StageNames
  <1>3. CASE s \in {"msg", "parent"}
    <2>1. l = Lock("msg", t.q.msg)
      BY <1>3, WantedEach DEF MessageLock
    <2> QED BY <1>3, <2>1, RankEach DEF Lock, StageNames
  <1>4. CASE s = "rows"
    <2>1. \E i \in DOMAIN committed.msg :
                   /\ l = Lock("msg", i)
                   /\ i \in t.victims \/ committed.msg[i].parent \in t.victims
      BY <1>4, WantedEach DEF DeleteLocks
    <2> QED BY <1>4, <2>1 DEF Lock, StageNames
  <1>5. CASE s = "scrub"
    BY <1>5, WantedEach
  <1>6. CASE s \in {"cap", "roomcap", "audit", "webhook"}
    <2>1. l = Lock(s, None)
      BY <1>6, WantedEach
    <2> QED BY <1>1, <1>6, <2>1 DEF Lock
  <1> QED BY <1>1, <1>2, <1>3, <1>4, <1>5, <1>6 DEF StageNames

\* What a transaction has locked before a message.
LEMMA BeforeMessages ==
    ASSUME NEW t, t.q.op \in Operations, OnTrack(t)
    PROVE  /\ Passed(t, "msg") => Passed(t, "room")
           /\ t.todo # <<>> /\ Head(t.todo) = "parent" => Passed(t, "cap")
           /\ t.todo # <<>> /\ Head(t.todo) = "rows" /\ t.q.op = "deleteRoom" => Passed(t, "room")
  <1> DEFINE St == Stages(t.q)
             k == Position(t)
  <1>1. Table(t.q, St) /\ k \in 0..Len(St) /\ Len(St) \in Nat
    BY StagesEach, StageOrder, PassedOrder DEF Ordered
  <1>2. t.todo # <<>> => Head(t.todo) = St[k + 1] /\ k + 1 \in 1..Len(St)
    <2>1. Len(t.todo) \in Nat /\ (t.todo # <<>> => Len(t.todo) > 0) /\ Len(t.todo) <= Len(St)
      BY <1>1 DEF OnTrack
    <2>2. t.todo # <<>> => Head(t.todo) = St[k + 1]
      BY <2>1 DEF OnTrack
    <2>3. k = Len(St) - Len(t.todo)
      BY DEF Position
    <2> DEFINE n == Len(t.todo)
    <2>4. n \in Nat /\ (t.todo # <<>> => n > 0) /\ k = Len(St) - n
      BY <2>1, <2>3
    <2> HIDE DEF St, k, n
    <2>5. t.todo # <<>> => k + 1 \in 1..Len(St)
      BY <1>1, <2>4
    <2> QED BY <2>2, <2>5
  <1>3. \A s : Passed(t, s) <=> \E j \in 1..k : St[j] = s
    BY DEF Passed
  <1>4. Passed(t, "msg") => t.q.op \in Rewrites
    BY PassedOrder
  <1>5. t.todo # <<>> /\ Head(t.todo) = "parent" => t.q.op = "create"
    BY HeadOrder
  <1> HIDE DEF St, k
  <1>6. CASE t.q.op = "create"
    <2>1. Len(St) = 7 /\ St[2] = "cap" /\ \A j \in 1..7 : St[j] = "parent" => j = 3
      BY <1>1, <1>6 DEF Table
    <2>2. t.todo # <<>> /\ Head(t.todo) = "parent" => k + 1 = 3
      BY <1>1, <1>2, <2>1
    <2> QED BY <1>1, <1>3, <1>4, <1>6, <2>1, <2>2 DEF Rewrites
  <1>7. CASE t.q.op \in Rewrites
    <2>1. St[1] = "room"
      BY <1>1, <1>7 DEF Table, Rewrites
    <2> QED BY <1>1, <1>3, <1>5, <1>7, <2>1 DEF Rewrites
  <1>8. CASE t.q.op = "deleteRoom"
    <2>1. Len(St) = 6 /\ St[1] = "room" /\ \A j \in 1..6 : St[j] = "rows" => j = 6
      BY <1>1, <1>8 DEF Table
    <2> QED BY <1>1, <1>2, <1>3, <1>4, <1>5, <1>8, <2>1 DEF Rewrites
  <1> QED BY <1>4, <1>5, <1>6, <1>7, <1>8

\* One transaction moves.
LEMMA LocksKept ==
    ASSUME StoreInv, LocksInv, NEW p \in Procs, NEW t, tx' = [tx EXCEPT ![p] = t], backend' = backend,
           t # None /\ backend = "postgres" => LockOrder(t)
    PROVE  LocksInv'
  <1>1. tx'[p] = t /\ \A o \in Procs \ {p} : tx'[o] = tx[o]
    BY DEF StoreInv, Transactions
  <1>2. \A o \in Active' : o # p => o \in Active /\ tx'[o] = tx[o]
    BY <1>1 DEF Active
  <1> QED BY <1>1, <1>2 DEF LocksInv, Active

\* A statement adds locks of its own rank and goes up.
LEMMA StatementOrders ==
    ASSUME StoreInv, LocksInv, NEW p \in Procs, Statement(p)
    PROVE  LocksInv'
  <1> DEFINE t == tx[p]
             s == Head(t.todo)
             V == Chosen(t)
  <1>1. /\ backend = "postgres" /\ p \in Active /\ t.todo # <<>> /\ backend' = backend
        /\ Finish(p) \/ \E u : Proceeds(p, u)
    BY StatementShape
  <1>2. /\ OnTrack(t) /\ Promise(committed, t) /\ t.q.op \in Operations /\ LockOrder(t)
    BY <1>1, RequestTyped DEF StoreInv, Transactions, IsTransaction, LocksInv
  <1>3. CASE Finish(p)
    BY <1>1, <1>3, LocksKept DEF Finish
  <1>4. ASSUME NEW u, Proceeds(p, u)
        PROVE  LocksInv'
    <2>1. /\ tx' = [tx EXCEPT ![p] = u] /\ u.q = t.q /\ u.todo = Rest(t, V)
          /\ u.held = t.held \cup Missing(p)
      BY <1>4 DEF Proceeds
    <2>2. Missing(p) \subseteq Wanted(t, s)
      BY MissingWanted
    <2> HIDE DEF V, t, s
    <2>3. Level(t) < Level(u) /\ Level(t) \in 1..9 /\ OnTrack(u)
      BY <1>1, <1>2, <2>1, LevelRises, Levels, RestOnTrack DEF t
    <2>4. Level(u) \in 1..10
      <3>1. u.todo = <<>> => Level(u) = 10
        BY DEF Level
      <3> QED BY <1>2, <2>1, <2>3, <3>1, Levels
    <2>5. Passed(t, "msg") \/ s = "msg" => Passed(u, "msg")
      <3>1. Passed(t, "msg") \/ s = "msg" => t.q.op \in Rewrites
        BY <1>1, <1>2, PassedOrder, HeadOrder DEF s, t
      <3>2. t.q.op \in Rewrites => u.todo = Tail(t.todo)
        BY <2>1 DEF Rest, Rewrites
      <3> QED BY <1>1, <1>2, <2>1, <3>1, <3>2, TailOnTrack DEF s, t
    <2>6. \A x \in StageNames : Rank(x) \in 1..8
      BY RankEach DEF StageNames
    <2>7. ASSUME NEW l \in t.held
          PROVE  /\ l[1] \in StageNames /\ Rank(l[1]) < Level(u)
                 /\ l[1] = "msg" => \/ Lock("cap", None) \in u.held
                                    \/ Passed(u, "msg") /\ l = Lock("msg", u.q.msg)
      <3>1. l[1] \in StageNames /\ Rank(l[1]) < Level(t) /\ Rank(l[1]) \in 1..8
        BY <1>2, <2>6 DEF LockOrder
      <3>2. Rank(l[1]) < Level(u)
        BY <2>3, <2>4, <3>1
      <3> QED BY <1>2, <2>1, <2>5, <3>1, <3>2 DEF LockOrder
    <2>8. ASSUME NEW l \in Wanted(t, s)
          PROVE  /\ l[1] \in StageNames /\ Rank(l[1]) < Level(u)
                 /\ l[1] = "msg" => \/ Lock("cap", None) \in u.held
                                    \/ Passed(u, "msg") /\ l = Lock("msg", u.q.msg)
      <3>1. CASE s = "rows"
        <4>1. l[1] = "msg" /\ l[1] \in StageNames
          BY <1>1, <1>2, <2>8, <3>1, WantedRank DEF s, t
        <4>2. Level(t) \in {5, 9}
          BY <1>1, <1>2, <3>1, Levels DEF s, t
        <4>3. Lock("cap", None) \in t.held
          BY <1>1, <1>2, <3>1, HeadOrder DEF s, t, Promise, CapPromise
        <4>4. Rank(l[1]) < Level(u)
          BY <2>3, <2>4, <4>1, <4>2, RankEach
        <4> QED BY <2>1, <4>1, <4>3, <4>4
      <3>2. CASE s # "rows"
        <4>1. /\ l[1] \in StageNames /\ Rank(l[1]) = Rank(s)
              /\ l[1] = "msg" => s \in {"msg", "parent"}
              /\ s \in {"msg", "parent"} => l = Lock("msg", t.q.msg)
          BY <1>1, <1>2, <2>8, <3>2, WantedRank DEF s, t
        <4>2. Level(t) = Rank(s)
          BY <1>1, <1>2, <3>2, Levels DEF s, t
        <4>3. s = "parent" => Lock("cap", None) \in t.held
          BY <1>1, <1>2, BeforeMessages DEF s, t, Promise, CapPromise
        <4> QED BY <2>1, <2>3, <2>4, <2>5, <4>1, <4>2, <4>3
      <3> QED BY <3>1, <3>2
    <2>9. LockOrder(u)
      BY <2>1, <2>2, <2>7, <2>8 DEF LockOrder
    <2> QED BY <1>1, <2>1, <2>9, LocksKept
  <1> QED BY <1>1, <1>3, <1>4

\* Only a DELETE waits for several locks.
LEMMA OneWanted ==
    ASSUME NEW p, tx[p].q.op \in Operations, OnTrack(tx[p]), tx[p].todo # <<>>,
           Cardinality(Missing(p)) > 1
    PROVE  Head(tx[p].todo) = "rows"
  <1> DEFINE t == tx[p]
             s == Head(t.todo)
  <1> SUFFICES ASSUME s # "rows"
               PROVE  Cardinality(Missing(p)) \in Nat /\ Cardinality(Missing(p)) <= 1
    OBVIOUS
  <1>1. Missing(p) \subseteq Wanted(t, s) /\ s \in StageNames
    BY MissingWanted, HeadOrder
  <1>2. \E x : Wanted(t, s) \subseteq {x}
    <2>1. CASE s = "room"
      BY <2>1, WantedEach
    <2>2. CASE s \in {"msg", "parent"}
      BY <2>2, WantedEach DEF MessageLock
    <2>3. CASE s = "scrub"
      BY <2>3, WantedEach
    <2>4. CASE s \in {"cap", "roomcap", "audit", "webhook"}
      BY <2>4, WantedEach
    <2> QED BY <1>1, <2>1, <2>2, <2>3, <2>4 DEF StageNames
  <1>3. PICK x : Missing(p) \subseteq {x}
    BY <1>1, <1>2
  <1>4. IsFiniteSet({x}) /\ Cardinality({x}) = 1
    BY FS_Singleton
  <1>5. Cardinality(Missing(p)) <= Cardinality({x}) /\ Cardinality(Missing(p)) \in Nat
    BY <1>3, <1>4, FS_Subset, FS_CardinalityType
  <1> QED BY <1>4, <1>5

\* A row lock of a DELETE is below it.
LEMMA LockRowOrders ==
    ASSUME StoreInv, LocksInv, NEW p \in Procs, LockRow(p)
    PROVE  LocksInv'
  <1> DEFINE t == tx[p]
  <1>1. /\ backend = "postgres" /\ p \in Active /\ backend' = backend
        /\ t.todo # <<>> /\ Cardinality(Missing(p)) > 1
    BY LockRowShape DEF LockRow, AtStage
  <1>2. PICK l \in Missing(p) : Locked(p, Granted(t, {l}), l)
    BY LockRowShape
  <1> DEFINE u == Granted(t, {l})
  <1>3. /\ OnTrack(t) /\ Promise(committed, t) /\ t.q.op \in Operations /\ LockOrder(t)
    BY <1>1, RequestTyped DEF StoreInv, Transactions, IsTransaction, LocksInv
  <1>4. /\ tx' = [tx EXCEPT ![p] = u]
        /\ u.q = t.q /\ u.todo = t.todo /\ u.held = t.held \cup {l}
    BY <1>2 DEF Locked
  <1>5. Head(t.todo) = "rows" /\ l \in Wanted(t, Head(t.todo))
    BY <1>1, <1>2, <1>3, OneWanted, MissingWanted
  <1>6. l[1] = "msg" /\ l[1] \in StageNames
    BY <1>1, <1>3, <1>5, WantedRank
  <1>7. Level(t) \in {5, 9}
    BY <1>1, <1>3, <1>5, Levels
  <1>8. Lock("cap", None) \in t.held
    BY <1>1, <1>3, <1>5, HeadOrder DEF Promise, CapPromise
  <1> HIDE DEF t, u
  <1>9. Level(u) = Level(t) /\ \A s : Passed(u, s) <=> Passed(t, s)
    BY <1>4 DEF Level, Passed, Position
  <1>10. Rank(l[1]) < Level(u)
    BY <1>6, <1>7, <1>9, RankEach
  <1>11. LockOrder(u)
    BY <1>3, <1>4, <1>6, <1>8, <1>9, <1>10 DEF LockOrder
  <1> QED BY <1>1, <1>4, <1>11, LocksKept

\* Every step keeps the invariant.
LEMMA LocksStep ==
    ASSUME StoreInv, LocksInv, [Next]_vars
    PROVE  LocksInv'
  <1>1. ASSUME NEW p \in Procs, NEW q \in Requests, Begin(p, q) PROVE LocksInv'
    <2> DEFINE t == [q |-> q, n |-> served + 1, held |-> {}, victims |-> {},
                     pos |-> 0, scrubbed |-> {}, id |-> 0, image |-> None,
                     todo |-> IF backend = "postgres" THEN Stages(q) ELSE <<"local">>]
    <2>1. tx' = [tx EXCEPT ![p] = t] /\ backend' = backend
      BY <1>1 DEF Begin
    <2>2. t.held = {}
      OBVIOUS
    <2> HIDE DEF t
    <2>3. LockOrder(t)
      BY <2>2 DEF LockOrder
    <2> QED BY <2>1, <2>3, LocksKept
  <1>2. ASSUME NEW p \in Procs, Abort(p) \/ Commit(p) \/ Tell(p) PROVE LocksInv'
    BY <1>2, LocksKept DEF Abort, Commit, Tell, Finish
  <1>3. ASSUME NEW p \in Procs, CommitLocal(p) \/ Resume(p) PROVE LocksInv'
    <2>1. p \in Active /\ tx[p].todo \in LocalSteps /\ backend' = backend
      BY <1>3 DEF CommitLocal, Resume, Active, LocalSteps
    <2> QED BY <2>1, LocalOnly DEF LocksInv
  <1>4. ASSUME NEW p \in Procs, LockRow(p) PROVE LocksInv'
    BY <1>4, LockRowOrders
  <1>5. ASSUME NEW p \in Procs, Statement(p) PROVE LocksInv'
    BY <1>5, StatementOrders
  <1>6. ASSUME tx' = tx, backend' = backend PROVE LocksInv'
    BY <1>6 DEF LocksInv, Active
  <1> QED BY <1>1, <1>2, <1>3, <1>4, <1>5, <1>6 DEF Next, Reload, Lapse, vars

\* Only one transaction at a time deletes rows.
LEMMA HoldsCapacity ==
    ASSUME StoreInv, backend = "postgres", NEW p \in Active, tx[p].todo # <<>>,
           Head(tx[p].todo) = "rows"
    PROVE  /\ Lock("cap", None) \in tx[p].held
           /\ \A o \in Active \ {p} : Lock("cap", None) \notin tx[o].held
           /\ tx[p].victims = Victims(committed, tx[p].q)
  <1>1. OnTrack(tx[p]) /\ Promise(committed, tx[p]) /\ tx[p].q.op \in Operations
    BY RequestTyped DEF StoreInv, Transactions, IsTransaction
  <1>2. CapPromise(committed, tx[p])
    BY <1>1, HeadOrder DEF Promise
  <1> QED BY <1>2 DEF CapPromise, StoreInv, Transactions

\* delete_room goes back to the message rows at the end, but waits for none:
\* whoever holds one without the capacity lock edits a message of the room, which
\* it cannot without the room lock.
LEMMA DeletionWaitsForNone ==
    ASSUME StoreInv, LocksInv, Integrity(committed), backend = "postgres", NEW p \in Active,
           tx[p].todo # <<>>, Head(tx[p].todo) = "rows", tx[p].q.op = "deleteRoom", NEW o
    PROVE  ~WaitsFor(p, o)
  <1> DEFINE t == tx[p]
             u == tx[o]
             d == committed
  <1> SUFFICES ASSUME o \in Active \ {p}, NEW l \in Missing(p), l \in u.held
               PROVE  FALSE
    BY DEF WaitsFor
  <1>1. /\ OnTrack(t) /\ Promise(d, t) /\ t.q.op \in Operations
        /\ OnTrack(u) /\ Promise(d, u) /\ u.q.op \in Operations /\ u.q \in Request
        /\ t.held \cap u.held = {} /\ LockOrder(u) /\ IsDatabase(d)
    BY RequestTyped DEF StoreInv, Transactions, IsTransaction, LocksInv
  <1>2. PICK i \in DOMAIN d.msg : /\ l[1] = "msg" /\ l = Lock("msg", i)
                                  /\ i \in t.victims \/ d.msg[i].parent \in t.victims
    <2>1. l \in Wanted(t, Head(t.todo))
      BY MissingWanted
    <2> QED BY <1>1, <2>1, WantedRank
  <1>3. /\ t.victims = InRoom(d, t.q.room)
        /\ Lock("cap", None) \notin u.held
        /\ Lock("room", t.q.room) \in t.held
    <2>1. Lock("room", t.q.room) \in t.held
      BY <1>1, BeforeMessages DEF Promise, RoomPromise
    <2> QED BY <1>1, <2>1, HoldsCapacity, VictimsEach
  <1>4. d.msg[i].room = t.q.room
    <2>1. CASE i \in t.victims
      BY <1>3, <2>1 DEF InRoom
    <2>2. CASE d.msg[i].parent \in t.victims
      <3>1. d.msg[i].parent \in DOMAIN d.msg /\ d.msg[d.msg[i].parent].room = t.q.room
        BY <1>3, <2>2 DEF InRoom
      <3>2. d.msg[i].parent # 0
        BY <1>1, <3>1, ConstantsAssumption DEF IsDatabase
      <3> QED BY <3>1, <3>2 DEF Integrity, FlatThreads
    <2> QED BY <1>2, <2>1, <2>2
  <1>5. Passed(u, "msg") /\ l = Lock("msg", u.q.msg)
    BY <1>1, <1>2, <1>3 DEF LockOrder
  <1>6. i = u.q.msg
    BY <1>2, <1>5 DEF Lock
  <1>7. /\ u.q.op \in Rewrites /\ RowPromise(d, u)
        /\ Lock("room", u.q.room) \in u.held
    BY <1>1, <1>5, PassedOrder, BeforeMessages DEF Promise, RoomPromise
  <1>8. d.msg[i].room = u.q.room
    BY <1>1, <1>6, <1>7, RowAllowsEach DEF RowPromise, Rewrites, Live, Target, InRoom
  <1> QED BY <1>1, <1>3, <1>4, <1>7, <1>8

\* Who is waited for is further than who waits.
LEMMA WaitsRise ==
    ASSUME StoreInv, LocksInv, Integrity(committed), backend = "postgres",
           NEW p \in Active, tx[p].todo # <<>>, NEW o \in Active, tx[o].todo # <<>>, WaitsFor(p, o)
    PROVE  Level(tx[p]) < Level(tx[o])
  <1> DEFINE t == tx[p]
             u == tx[o]
             s == Head(t.todo)
  <1>1. PICK l : l \in Missing(p) /\ l \in u.held /\ o # p
    BY DEF WaitsFor
  <1>2. /\ OnTrack(t) /\ t.q.op \in Operations
        /\ OnTrack(u) /\ u.q.op \in Operations /\ LockOrder(u)
    BY RequestTyped DEF StoreInv, Transactions, IsTransaction, LocksInv
  <1>3. l \in Wanted(t, s) /\ l[1] \in StageNames /\ Rank(l[1]) < Level(u) /\ Level(u) \in 1..9
    BY <1>1, <1>2, MissingWanted, Levels DEF LockOrder
  <1>4. CASE s # "rows"
    BY <1>2, <1>3, <1>4, WantedRank, Levels
  <1>5. CASE s = "rows"
    <2>1. t.q.op # "deleteRoom"
      BY <1>5, DeletionWaitsForNone
    <2>2. Level(t) = 5 /\ l[1] = "msg" /\ Rank("msg") = 4
      BY <1>2, <1>3, <1>5, <2>1, WantedRank, Levels, RankEach
    <2>3. Head(u.todo) # "rows"
      BY <1>1, <1>5, HoldsCapacity
    <2>4. Level(u) # 5
      BY <1>2, <2>3, Levels
    <2> QED BY <1>3, <2>2, <2>4
  <1> QED BY <1>4, <1>5

\* PostgreSQL never has to break a deadlock between operations of the store:
\* all of them take their locks in one order, except delete_room, whose deletion
\* of rows behind the audit and webhook locks cannot be blocked (postgres_store.py).
THEOREM NobodyWaitsInACircle == Spec => []NoWaitCycle
  <1>1. Init => StoreInv /\ Integrity(committed) /\ LocksInv
    BY InitKeeps, ConstantsAssumption DEF Init, LocksInv, Active
  <1>2. /\ StoreInv /\ Integrity(committed) /\ LocksInv /\ [Next]_vars
        => StoreInv' /\ Integrity(committed)' /\ LocksInv'
    BY StepKeeps, IntegrityNext, LocksStep
  <1>3. StoreInv /\ Integrity(committed) /\ LocksInv => NoWaitCycle
    <2> SUFFICES ASSUME StoreInv, Integrity(committed), LocksInv,
                        NEW S \in SUBSET Active, S # {},
                        \A p \in S : \E o \in S : WaitsFor(p, o)
                 PROVE  FALSE
      BY DEF NoWaitCycle
    <2>1. \A p \in S : backend = "postgres" /\ tx[p].todo # <<>>
      BY DEF WaitsFor, AtStage
    <2>2. \A p \in S : Level(tx[p]) \in 1..9
      <3>1. \A p \in S : tx[p].q.op \in Operations /\ OnTrack(tx[p])
        BY <2>1, RequestTyped DEF StoreInv, Transactions, IsTransaction
      <3> QED BY <2>1, <3>1, Levels
    <2> DEFINE T == {Level(tx[p]) : p \in S}
    <2>3. T \in SUBSET (1..9) /\ T # {}
      BY <2>2
    <2> HIDE DEF T
    <2>4. PICK m \in T : \A j \in T : j <= m
      BY <2>3, Greatest
    <2>5. PICK p \in S : m = Level(tx[p])
      BY <2>4 DEF T
    <2>6. PICK o \in S : WaitsFor(p, o)
      BY <2>5
    <2>7. m < Level(tx[o])
      BY <2>1, <2>5, <2>6, WaitsRise
    <2>8. Level(tx[o]) <= m
      BY <2>4 DEF T
    <2> QED BY <2>2, <2>3, <2>4, <2>7, <2>8
  <1> QED BY <1>1, <1>2, <1>3, PTL DEF Spec
=============================================================================
