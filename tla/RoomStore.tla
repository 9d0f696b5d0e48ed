----------------------------- MODULE RoomStore -----------------------------
(***************************************************************************)
(* How the two storage backends serve concurrent requests, and how the     *)
(* outcome reaches a connected client.                                     *)
(*                                                                         *)
(* SQLite (store.py): one writer at a time holds the asyncio write lock    *)
(* while a thread runs the transaction.  The handler that gets the lock    *)
(* back has nothing to await before it hands its event to the connection   *)
(* manager, except that a message command of a typing socket announces     *)
(* typing.stopped first (app.py).                                          *)
(*                                                                         *)
(* PostgreSQL (postgres_store.py): a READ COMMITTED transaction takes row  *)
(* and advisory locks one by one and holds them until it ends.  What a     *)
(* statement reads is what was committed when its lock was granted; the    *)
(* writes take effect at the commit, together with the event.  The event   *)
(* sequence lock is the last one taken and is held only across the commit, *)
(* so it is part of that step; RealtimeRelay shows that the events are     *)
(* delivered in that order.                                                *)
(***************************************************************************)
EXTENDS ChatRows, Sequences

CONSTANTS
    Backends,   \* the backends an instance is about
    Procs,      \* requests served at the same time
    MaxServed   \* bound: requests served

ASSUME ProcsAssumption == IsFiniteSet(Procs)

VARIABLES
    backend,    \* "sqlite" or "postgres"
    committed,  \* the committed database
    tx,         \* the transaction of each process, None between requests
    log,        \* PostgreSQL: the events that still hold the body of a message
    view,       \* what a client that watches every room shows of each message
    live,       \* the rooms it is connected to
    typed,      \* SQLite: messages sent from a socket that was typing
    served      \* requests begun

clientVars == <<view, live>>
vars == <<backend, committed, tx, log, view, live, typed, served>>

\* A message as events carry it.  parent_message_id is left out: when a
\* parent is removed, its replies change without an event.
Image(row) == [text |-> row.text, pin |-> row.pin, deleted |-> row.deleted,
               counts |-> [e \in Emojis |-> Cardinality({m \in Members : <<m, e>> \in row.reacts})]]

\* A transaction under way: the statements of PostgreSQL or the steps of SQLite
\* that are left.
Steps == {"room", "cap", "roomcap", "parent", "msg", "rows", "scrub", "audit", "webhook",
          "local", "resume", "tell"}
Transaction == [q: Requests, n: Nat, held: SUBSET (Steps \X (Rooms \cup Ids \cup {None})),
                victims: SUBSET Ids, pos: Positions, scrubbed: SUBSET (Nat \X Ids),
                id: 0..MaxIds, image: {None} \cup {Image(row) : row \in Row}, todo: Seq(Steps)]

ASSUME NoneAssumption == None \notin Transaction /\ \A row \in Row : Image(row) # None

Lock(kind, x) == <<kind, x>>
Active == {p \in Procs : tx[p] # None}
Held(l, p) == \E o \in Active \ {p} : l \in tx[o].held

-----------------------------------------------------------------------------
(* The lock order.  "room", "msg" and "parent" are row locks, "rows" the   *)
(* row locks of a DELETE; "cap", "roomcap", "audit" and "webhook" advisory *)
(* locks; "scrub" rewrites the retained events and takes no lock others    *)
(* wait for.                                                               *)

\* mutant: a reply locks its parent before the message capacity lock
ParentFirst == <<"room", "parent", "cap", "rows", "scrub", "audit", "webhook">>

\* create_message
CreateOrder == <<"room", "cap", "parent", "rows", "scrub", "audit", "webhook">>

\* The statements of each operation that lock something or read events.
Stages(q) ==
    CASE q.op = "create" -> CreateOrder
      [] q.op = "update" -> <<"room", "cap", "msg", "audit", "webhook">>
      [] q.op = "delete" -> <<"room", "cap", "msg", "scrub", "audit", "webhook">>
      [] q.op = "react" -> <<"room", "msg", "webhook">>
      [] q.op = "pin" -> <<"room", "msg", "audit", "webhook">>
      [] q.op = "moderate" -> <<"room", "audit", "webhook">>
      [] q.op = "retain" -> <<"cap", "rows", "scrub", "audit", "webhook">>
      [] q.op = "deleteRoom" -> <<"room", "cap", "scrub", "audit", "webhook", "rows">>
      [] q.op = "createRoom" -> <<"roomcap", "room", "audit">>
      [] q.op = "setRoomState" -> <<"room", "audit">>
      [] OTHER -> <<"room">>

\* mutant: the message is read without FOR UPDATE
MessageLockNone(q) == {}

\* _lock_message and the FOR SHARE of a parent; a row that is not there is
\* not waited for.
MessageLock(q) == {Lock("msg", i) : i \in DOMAIN committed.msg \cap {q.msg}}

\* The rows a DELETE of V locks: the rows themselves, and the replies whose
\* parent_message_id it sets to NULL.
DeleteLocks(V) ==
    {Lock("msg", i) : i \in {j \in DOMAIN committed.msg : j \in V \/ committed.msg[j].parent \in V}}

\* The locks of the statement p is at that it does not hold yet.
Missing(p) ==
    LET t == tx[p]
        s == Head(t.todo)
        wanted == CASE s = "room" -> IF t.q.op = "createRoom" \/ t.q.room \in committed.rooms
                                     THEN {Lock("room", t.q.room)} ELSE {}
                    [] s \in {"msg", "parent"} -> MessageLock(t.q)
                    [] s = "rows" -> DeleteLocks(t.victims)
                    [] s = "scrub" -> {}
                    [] OTHER -> {Lock(s, None)}
    IN  wanted \ t.held

-----------------------------------------------------------------------------
Init ==
    /\ backend \in Backends
    /\ committed \in Initial
    /\ tx = [p \in Procs |-> None]
    /\ log = {<<0, i>> : i \in {j \in DOMAIN committed.msg :
                                   backend = "postgres" /\ ~committed.msg[j].deleted}}
    /\ view = [i \in Ids |-> IF i \in DOMAIN committed.msg THEN Image(committed.msg[i]) ELSE None]
    /\ live = {r \in committed.rooms : "archived" \notin committed.flags[r]}
    /\ typed = {}
    /\ served = 0

\* _enforce_member_access: the handler asks the store before it calls it;
\* message commands of a socket do not.
MemberAccess(q) ==
    \/ q.admin \/ q.socket # "no"
    \/ committed.control[q.room][q.by] \cap (IF q.op \in {"read", "clear"} THEN {"banned"} ELSE Controls) = {}

Creating == {p \in Active : tx[p].q.op = "create"}

\* A handler enters the store.
Begin(p, q) ==
    /\ tx[p] = None /\ served < MaxServed
    /\ q.op = "create" => committed.last + Cardinality(Creating) < MaxIds
    /\ MemberAccess(q)
    /\ served' = served + 1
    /\ tx' = [tx EXCEPT ![p] = [q |-> q, n |-> served + 1, held |-> {}, victims |-> {},
                                pos |-> 0, scrubbed |-> {}, id |-> 0, image |-> None,
                                todo |-> IF backend = "postgres" THEN Stages(q) ELSE <<"local">>]]
    /\ UNCHANGED <<backend, committed, log, clientVars, typed>>

\* The transaction ends: refused, without a change to make, or committed.
Finish(p) == tx' = [tx EXCEPT ![p] = None]

\* It fails before the commit: a full webhook outbox, a lost connection.
Abort(p) ==
    /\ tx[p] # None /\ tx[p].todo \notin {<<"resume">>, <<"tell">>}
    /\ Finish(p)
    /\ UNCHANGED <<backend, committed, log, clientVars, typed, served>>

-----------------------------------------------------------------------------
(* The client.                                                             *)

\* RoomTimeline.apply: the last event about a message is what is shown.  An
\* archive closes the sockets of the room.
Told(q, id, image) ==
    /\ view' = IF image = None THEN view ELSE [view EXCEPT ![id] = image]
    /\ live' = IF "archived" \in DOMAIN q.flags /\ q.flags["archived"] THEN live \ {q.room} ELSE live

\* A new socket starts from the stored history of its room.
Reload(r) ==
    /\ r \in committed.rooms \ live /\ "archived" \notin committed.flags[r]
    /\ live' = live \cup {r}
    /\ view' = [i \in Ids |-> IF i \in InRoom(committed, r) THEN Image(committed.msg[i]) ELSE view[i]]
    /\ UNCHANGED <<backend, committed, tx, log, typed, served>>

\* The event about a message: which message, and its row as the statement
\* that wrote it returned it.
EventId(d, q) == IF q.op = "create" THEN d.last + 1 ELSE q.msg
EventImage(d, q) ==
    CASE q.op = "create" -> Image(NewRow(q))
      [] q.op \in {"update", "delete", "react", "pin"} -> Image(Rewritten(d.msg[q.msg], q))
      [] OTHER -> None

-----------------------------------------------------------------------------
(* SQLite.                                                                 *)

WriteLockFree(p) == \A o \in Active \ {p} : tx[o].todo # <<"resume">>

\* One thread runs the whole transaction under the write lock.
CommitLocal(p) ==
    LET q == tx[p].q
    IN  /\ tx[p] # None /\ tx[p].todo = <<"local">> /\ WriteLockFree(p)
        /\ IF RoomAllows(committed, q) /\ RowAllows(committed, q) /\ Changes(committed, q)
           THEN /\ committed' = Effect(committed, q, Victims(committed, q), ReadPosition(committed, q))
                /\ tx' = [tx EXCEPT ![p] =
                        [@ EXCEPT !.todo = <<"resume">>, !.id = EventId(committed, q),
                                  !.image = EventImage(committed, q)]]
                /\ typed' = IF q.socket = "typing" THEN typed \cup {committed.last + 1} ELSE typed
           ELSE Finish(p) /\ UNCHANGED <<committed, typed>>
        /\ UNCHANGED <<backend, log, clientVars, served>>

\* mutant: the handler suspends between the write lock and the broadcast
SuspendsAlways(q) == TRUE

\* set_typing(False) broadcasts, and so suspends the handler, if the socket
\* was typing.
SuspendsFirst(q) == q.socket = "typing"

\* The handler resumes, lets go of the write lock and broadcasts.
Resume(p) ==
    /\ tx[p] # None /\ tx[p].todo = <<"resume">>
    /\ IF SuspendsFirst(tx[p].q)
       THEN tx' = [tx EXCEPT ![p] = [@ EXCEPT !.todo = <<"tell">>]] /\ UNCHANGED clientVars
       ELSE Told(tx[p].q, tx[p].id, tx[p].image) /\ Finish(p)
    /\ UNCHANGED <<backend, committed, log, typed, served>>

Tell(p) ==
    /\ tx[p] # None /\ tx[p].todo = <<"tell">>
    /\ Told(tx[p].q, tx[p].id, tx[p].image) /\ Finish(p)
    /\ UNCHANGED <<backend, committed, log, typed, served>>

-----------------------------------------------------------------------------
(* PostgreSQL.                                                             *)

AtStage(p) == backend = "postgres" /\ tx[p] # None /\ tx[p].todo # <<>>

Granted(t, L) == [t EXCEPT !.held = @ \cup L]

\* A DELETE takes its row locks in any order.
LockRow(p) ==
    /\ AtStage(p) /\ Cardinality(Missing(p)) > 1
    /\ \E l \in Missing(p) : ~Held(l, p) /\ tx' = [tx EXCEPT ![p] = Granted(@, {l})]
    /\ UNCHANGED <<backend, committed, log, clientVars, typed, served>>

\* mutant: the transaction relies on what the handler checked before it
RoomStopsUnchecked(q) == q.room \notin committed.rooms

\* What is checked under the room lock.
RoomStops(q) ==
    \/ ~RoomAllows(committed, q)
    \/ q.op = "create" /\ Replayed(committed, q)
    \/ q.op \in {"read", "clear", "setRoomState"} /\ ~(RowAllows(committed, q) /\ Changes(committed, q))

\* The checks behind a statement that end the transaction.
Stops(s, q) ==
    CASE s = "roomcap" -> Cardinality(committed.rooms) >= MaxRooms
      [] s = "room" -> RoomStops(q)
      [] s = "parent" -> ~RowAllows(committed, q)
      [] s = "msg" -> ~(RowAllows(committed, q) /\ Changes(committed, q))
      [] OTHER -> FALSE

\* The statements left; nothing is deleted, scrubbed or audited when no
\* message is trimmed.
Rest(t, V) ==
    IF t.q.op = "create" /\ V = {} /\ Len(t.todo) > 1 /\ t.todo[2] = "rows"
    THEN <<"webhook">> ELSE Tail(t.todo)

\* The bodies a scrub finds: those of committed events.
Scrubbed(t) == {e \in log : e[2] \in IF t.q.op = "delete" THEN {t.q.msg} ELSE t.victims}

\* What the transaction has read, locked and still to do after statement s
\* when it decides to remove V.
Advanced(t, s, V) ==
    [t EXCEPT !.victims = V,
              !.todo = Rest(t, V),
              !.pos = IF s = "room" THEN ReadPosition(committed, t.q) ELSE @,
              !.image = IF s = "msg" THEN EventImage(committed, t.q) ELSE @,
              !.scrubbed = IF s = "scrub" THEN Scrubbed(t) ELSE @]

\* The statement runs as soon as the last lock it needs is granted.
Statement(p) ==
    LET t == tx[p]
        s == Head(t.todo)
        V == IF s \in {"cap", "parent"} THEN Victims(committed, t.q) ELSE t.victims
    IN  /\ AtStage(p) /\ Cardinality(Missing(p)) <= 1
        /\ \A l \in Missing(p) : ~Held(l, p)
        /\ IF Stops(s, t.q) THEN Finish(p)
           ELSE tx' = [tx EXCEPT ![p] = Granted(Advanced(t, s, V), Missing(p))]
        /\ UNCHANGED <<backend, committed, log, clientVars, typed, served>>

\* The writes and the event become visible together.
Commit(p) ==
    LET t == tx[p]
        id == EventId(committed, t.q)
        image == IF t.q.op = "create" THEN Image(NewRow(t.q)) ELSE t.image
    IN  /\ backend = "postgres" /\ tx[p] # None /\ t.todo = <<>>
        /\ committed' = Effect(committed, t.q, t.victims, t.pos)
        /\ log' = (log \ t.scrubbed) \cup
                  (IF image = None \/ image.deleted THEN {} ELSE {<<t.n, id>>})
        /\ Told(t.q, id, image) /\ Finish(p)
        /\ UNCHANGED <<backend, typed, served>>

-----------------------------------------------------------------------------
\* A mute or a ban reaches its end.
Lapse(r, m) ==
    /\ \E c \in committed.control[r][m] :
          committed' = [committed EXCEPT !.control = Put(@, r, m, committed.control[r][m] \ {c})]
    /\ UNCHANGED <<backend, tx, log, clientVars, typed, served>>

Next ==
    \/ \E p \in Procs : \/ \E q \in Requests : Begin(p, q)
                        \/ Abort(p) \/ CommitLocal(p) \/ Resume(p) \/ Tell(p)
                        \/ LockRow(p) \/ Statement(p) \/ Commit(p)
    \/ \E r \in Rooms : Reload(r)
    \/ \E r \in Rooms, m \in Members : Lapse(r, m)

Spec == Init /\ [][Next]_vars

-----------------------------------------------------------------------------
(* Properties.                                                             *)

Store == INSTANCE ChatStore WITH db <- committed

\* Both backends implement ChatStore: although a PostgreSQL transaction
\* checks the room, the client message id, the parent and the capacities in
\* separate statements, its commit does what the whole operation would do on
\* the database of that instant.
Atomic == Store!Spec

\* Whatever is served at the same time, client message ids stay unique in a
\* room, threads stay one level deep, tombstones stay bare, no message is
\* left without its room and the stored messages stay within both caps.
StoreSound ==
    /\ Integrity(committed)
    /\ Cardinality(DOMAIN committed.msg) <= MaxStored
    /\ \A r \in Rooms : Cardinality(InRoom(committed, r)) <= MaxPerRoom

\* A connected client shows every stored message as it is stored, once the
\* handlers that committed a change of it have broadcast it.  In SQLite mode
\* a message sent from a typing socket is excepted: its creation may be
\* broadcast after a later change of it.
Converges ==
    \A i \in DOMAIN committed.msg \ typed :
        \/ committed.msg[i].room \notin live
        \/ \E p \in Active : tx[p].id = i
        \/ view[i] = Image(committed.msg[i])

\* PostgreSQL: no retained event holds the body of a message that was
\* deleted, trimmed, expired or removed with its room, although events are
\* appended while others are being scrubbed.
ErasedFromLog ==
    \A e \in log : e[2] \in DOMAIN committed.msg /\ ~committed.msg[e[2]].deleted

\* PostgreSQL: no transactions wait for each other in a circle.
WaitsFor(p, o) == AtStage(p) /\ o \in Active \ {p} /\ Missing(p) \cap tx[o].held # {}
NoWaitCycle ==
    ~\E S \in SUBSET Active : S # {} /\ \A p \in S : \E o \in S : WaitsFor(p, o)
=============================================================================
